---- MODULE Spec2Model ----
(***************************************************************************)
(* A model of the concept notation of prolificeric/coeng2:                 *)
(*   - tokenize          (packages/core/lang/tokens.ts)                    *)
(*   - parseConcepts     (packages/core/lang/parse.ts), the token loop     *)
(*     with its handlers, the permutation cache and the result list        *)
(*   - the AST node classes parse.ts builds (unnamed/part_002)             *)
(*   - Concept           (packages/core/concept.ts)                        *)
(*                                                                         *)
(* A source is a sequence of one-character strings; a key is one too.      *)
(* Nodes live in an arena (a sequence), a node's identity is its index.    *)
(***************************************************************************)
EXTENDS Naturals, Sequences, FiniteSets, TLC

VARIABLES
    source,     \* parseConcepts' argument
    tokens,     \* tokenize(source)
    pos,        \* index of the token the for-loop is at
    pc,         \* where parseConcepts is: start, loop, close, readout, done, error
    nodes,      \* the AST: every node created so far
    cache,      \* ConceptParsingContext.#permutationCache
    results,    \* ConceptParsingContext.results
    branch,     \* ConceptParsingContext.branch
    error,      \* the Error thrown, "none" while none is
    concept,    \* a Concept a caller holds
    wire,       \* its serialized form
    restored,   \* Concept.deserialize of the serialized form
    cpc,        \* where the caller is: new, serialized, restored
    given,      \* the parts a caller hands to Concept.fromParts
    vocabulary, \* the values of TriggerDirective, supplied from outside
    built,      \* what Concept.fromParts returned: <<>> or <<concept>>
    tags,       \* what built.getTagSet() returned
    mask,       \* what built.toMask() returned: <<>> or <<concept>>
    remask,     \* what built.toMask().toMask() returned
    kpc,        \* where that caller is: parts, built, tagged, masked, remasked
    sourceText, \* a source given to the tokenizer of unnamed/part_005
    chunks,     \* the same source as the chunks of an AsyncIterable<string>
    whole,      \* tokenize(sourceText): the tokens of the whole string
    emitted,    \* await tokenize(chunks): the tokens of the chunked source
    hpc,        \* where that caller is: start, whole, done
    notation,   \* a source given to Concept.parseAll, or tokenized for parseTokens
    visiting,   \* TRUE when onNodeComplete is parseAll's callback (astVisitors)
    tokenList,  \* AstNode.parseTokens' argument
    index,      \* index of the token parseTokens' for-loop is at
    tree,       \* the AstNodes created so far, the root first
    cursor,     \* parseTokens' cursor
    completed,  \* the nodes onNodeComplete was called with, in order
    concepts,   \* parseAll's list of concepts
    thrown,     \* the Error thrown, "none" while none is
    apc,        \* where the call is: start, loop, done, error
    segmentList,\* the segments a caller hands to the combining functions
    spread,     \* what combinePermutations(...segmentList) returned
    folded,     \* what combining the segments two at a time returned
    recursed,   \* what combinePermutationSegments(segmentList) returned
    spc         \* where that caller is: start, spread, folded, done

vars == <<source, tokens, pos, pc, nodes, cache, results, branch, error,
          concept, wire, restored, cpc,
          given, vocabulary, built, tags, mask, remask, kpc,
          sourceText, chunks, whole, emitted, hpc,
          notation, visiting, tokenList, index, tree, cursor, completed, concepts,
          thrown, apc,
          segmentList, spread, folded, recursed, spc>>

parseVars == <<source, tokens, pos, pc, nodes, cache, results, branch, error>>

conceptVars == <<concept, wire, restored, cpc>>

tagVars == <<given, vocabulary, built, tags, mask, remask, kpc>>

chunkVars == <<sourceText, chunks, whole, emitted, hpc>>

astVars == <<notation, visiting, tokenList, index, tree, cursor, completed,
            concepts, thrown, apc>>

combineVars == <<segmentList, spread, folded, recursed, spc>>

\* no caller of the combining functions is under way
IdleCombine ==
    /\ segmentList = <<>>
    /\ spread = <<>>
    /\ folded = <<>>
    /\ recursed = <<>>
    /\ spc = "idle"

\* no call of parseAll or parseTokens has been started
IdleAst ==
    /\ notation = <<>>
    /\ visiting = FALSE
    /\ tokenList = <<>>
    /\ index = 1
    /\ tree = <<>>
    /\ cursor = 0
    /\ completed = <<>>
    /\ concepts = <<>>
    /\ thrown = "none"
    /\ apc = "idle"

\* the caller of the chunked tokenizer has not been started
IdleChunks ==
    /\ sourceText = <<>>
    /\ chunks = <<>>
    /\ whole = <<>>
    /\ emitted = <<>>
    /\ hpc = "idle"

(***************************************************************************)
(* Bounds of the model.                                                    *)
(***************************************************************************)
\* Every source of at most this many characters over Alphabet is parsed.
MaxSrcLen == 3

\* The alternatives y1..yn of the group families, and the atoms of a run.
MaxAlts == 3

\* The parts of a concept a caller builds.
MaxParts == 2

\* The parts a caller hands to Concept.fromParts before it classifies the result.
MaxTagParts == 3

(***************************************************************************)
(* Sequences.                                                              *)
(***************************************************************************)
SeqsUpTo(S, n) == UNION {[1..k -> S] : k \in 0..n}

NonEmptySeqsUpTo(S, n) == UNION {[1..k -> S] : k \in 1..n}

Drop(s, n) == SubSeq(s, n + 1, Len(s))

RECURSIVE Flatten(_)
\* Array.prototype.flat(1), and reduce((agg, x) => agg.concat(x), [])
Flatten(ss) == IF ss = <<>> THEN <<>> ELSE Head(ss) \o Flatten(Tail(ss))

RECURSIVE JoinWith(_, _)
\* Array.prototype.join
JoinWith(ss, sep) ==
    IF ss = <<>> THEN <<>>
    ELSE IF Len(ss) = 1 THEN ss[1]
    ELSE ss[1] \o sep \o JoinWith(Tail(ss), sep)

(***************************************************************************)
(* tokens.ts: the character classes of the rules.                          *)
(***************************************************************************)
\* [, \t\n] and [\n\t, ]
SeparatorRun == {",", " ", "\t", "\n"}

\* [\t ]
Blank == {"\t", " "}

\* what [^ ,\n\(\)\{\}\[\]] excludes
AtomStop == {" ", ",", "\n", "(", ")", "{", "}", "[", "]"}

\* what String.prototype.trimStart / trimEnd remove
WhiteSpace == {" ", "\t", "\n"}

RECURSIVE RunLen(_, _, _)
\* the length of the longest run of characters of `class` in s from index i
RunLen(s, i, class) ==
    IF i <= Len(s) /\ s[i] \in class THEN 1 + RunLen(s, i + 1, class) ELSE 0

RECURSIVE RunLenNot(_, _, _)
RunLenNot(s, i, class) ==
    IF i <= Len(s) /\ s[i] \notin class THEN 1 + RunLenNot(s, i + 1, class) ELSE 0

RECURSIVE FindClose(_, _)
\* the index of the second > of the first >> at or after index i, 0 if none
FindClose(s, i) ==
    IF i + 1 > Len(s) THEN 0
    ELSE IF s[i] = ">" /\ s[i + 1] = ">" THEN i + 1
    ELSE FindClose(s, i + 1)

\* /^[,\n][, \t\n]*/
MatchBranchSeparator(s) ==
    IF Len(s) >= 1 /\ s[1] \in {",", "\n"} THEN 1 + RunLen(s, 2, SeparatorRun) ELSE 0

\* /^[\t ]*/
MatchPartSeparator(s) == RunLen(s, 1, Blank)

\* /^\([\n\t, ]*/ and the same for { and [
MatchOpen(s, ch) ==
    IF Len(s) >= 1 /\ s[1] = ch THEN 1 + RunLen(s, 2, SeparatorRun) ELSE 0

\* /^[\n\t, ]*\)/ and the same for } and ]
MatchClose(s, ch) ==
    LET r == RunLen(s, 1, SeparatorRun)
    IN  IF r < Len(s) /\ s[r + 1] = ch THEN r + 1 ELSE 0

\* /^:/ and /^&/
MatchChar(s, ch) == IF Len(s) >= 1 /\ s[1] = ch THEN 1 ELSE 0

\* /^\.{3}[^.]/
MatchPrevRef(s) ==
    IF Len(s) >= 4 /\ s[1] = "." /\ s[2] = "." /\ s[3] = "." /\ s[4] # "."
    THEN 4 ELSE 0

\* /^<<(.|\n)*?>>/
MatchQuoted(s) ==
    IF Len(s) >= 4 /\ s[1] = "<" /\ s[2] = "<" THEN FindClose(s, 3) ELSE 0

\* an atom rule that stops at a dot as well: /^[^. ,\n\(\)\{\}\[\]]+/
MatchAtomUndotted(s) == RunLenNot(s, 1, AtomStop \cup {"."})

\* /^[^ ,\n\(\)\{\}\[\]]+/
MatchAtom(s) == RunLenNot(s, 1, AtomStop)

\* the rules in their order of priority
defaultTokenParsers ==
    << [type |-> "BRANCH_SEPARATOR", rule |-> "branch"],
       [type |-> "PART_SEPARATOR",   rule |-> "part"],
       [type |-> "L_PAREN",          rule |-> "("],
       [type |-> "R_PAREN",          rule |-> ")"],
       [type |-> "L_CURLY",          rule |-> "{"],
       [type |-> "R_CURLY",          rule |-> "}"],
       [type |-> "L_SQUARE",         rule |-> "["],
       [type |-> "R_SQUARE",         rule |-> "]"],
       [type |-> "SORTED_SET_INIT",  rule |-> ":"],
       [type |-> "HEAD_REF",         rule |-> "&"],
       [type |-> "PREV_REF",         rule |-> "..."],
       [type |-> "ATOM",             rule |-> "<<"],
       [type |-> "ATOM",             rule |-> "atom"] >>

\* RegExpParser(regexp)(input): the length of the match, 0 for null or ''
RegExpParser(rule, s) ==
    CASE rule = "branch" -> MatchBranchSeparator(s)
      [] rule = "part"   -> MatchPartSeparator(s)
      [] rule \in {"(", "{", "["} -> MatchOpen(s, rule)
      [] rule \in {")", "}", "]"} -> MatchClose(s, rule)
      [] rule \in {":", "&"} -> MatchChar(s, rule)
      [] rule = "..."    -> MatchPrevRef(s)
      [] rule = "<<"     -> MatchQuoted(s)
      [] rule = "atom"   -> MatchAtom(s)

RECURSIVE FirstParser(_, _)
\* tokenParserLoop: the first rule from index k on whose match is not empty
FirstParser(s, k) ==
    IF k > Len(defaultTokenParsers) THEN 0
    ELSE IF RegExpParser(defaultTokenParsers[k].rule, s) > 0 THEN k
    ELSE FirstParser(s, k + 1)

trimStart(s) == Drop(s, RunLen(s, 1, WhiteSpace))

RECURSIVE trimEnd(_)
trimEnd(s) ==
    IF s # <<>> /\ s[Len(s)] \in WhiteSpace THEN trimEnd(SubSeq(s, 1, Len(s) - 1))
    ELSE s

\* value.split('\n').length - 1: the newline characters of s
Newlines(s) == Cardinality({i \in 1..Len(s) : s[i] = "\n"})

\* value.split('\n').at(-1).length: the characters after the last newline of s
LastLineLength(s) ==
    LET breaks == {i \in 1..Len(s) : s[i] = "\n"}
    IN  IF breaks = {} THEN Len(s)
        ELSE Len(s) - (CHOOSE i \in breaks : \A j \in breaks : j <= i)

\* let start: trimmedLines is input.slice(0, trimmedLeft.length).split('\n'),
\* the first trimmedLeft.length characters of the untrimmed input
StartCursor(input) ==
    LET trimmedLeft == trimStart(input)
        sliced == SubSeq(input, 1, Len(trimmedLeft))
    IN  [offset |-> Len(input) - Len(trimmedLeft),
         line   |-> Newlines(sliced) + 1,
         column |-> LastLineLength(sliced) + 1]

\* const end: the cursor after `value`, which starts at `start`
EndCursor(start, value) ==
    [offset |-> start.offset + Len(value),
     line   |-> start.line + (Newlines(value) + 1),
     column |-> IF Newlines(value) + 1 > 1 THEN LastLineLength(value) + 1
                ELSE start.column + Len(value)]

RECURSIVE inputLoop(_, _, _)
\* inputLoop: the tokens of `input` after `acc`, or the throw of "Unexpected token"
inputLoop(input, start, acc) ==
    IF input = <<>> THEN [ok |-> TRUE, tokens |-> acc]
    ELSE LET k == FirstParser(input, 1)
         IN  IF k = 0 THEN [ok |-> FALSE, tokens |-> acc]
             ELSE LET n == RegExpParser(defaultTokenParsers[k].rule, input)
                      value == SubSeq(input, 1, n)
                      end == EndCursor(start, value)
                      token == [type  |-> defaultTokenParsers[k].type,
                                value |-> value,
                                loc   |-> [start |-> start, end |-> end]]
                  IN  inputLoop(Drop(input, n), end, Append(acc, token))

\* tokenize without trimEnd: input = trimmedLeft
tokenizeNoTrimEnd(input) ==
    LET trimmedLeft == trimStart(input)
    IN  IF trimmedLeft = <<>> THEN [ok |-> TRUE, tokens |-> <<>>]
        ELSE inputLoop(trimmedLeft, StartCursor(input), <<>>)

\* tokenize that does not trim its input at all
tokenizeUntrimmed(input) == inputLoop(input, StartCursor(input), <<>>)

tokenize(input) ==
    LET trimmedRight == trimEnd(trimStart(input))
    IN  IF trimmedRight = <<>> THEN [ok |-> TRUE, tokens |-> <<>>]
        ELSE inputLoop(trimmedRight, StartCursor(input), <<>>)

(***************************************************************************)
(* unnamed/part_005: the tokenizer that also takes an AsyncIterable.       *)
(***************************************************************************)
\* [0-9]
Digits == {"0", "1", "2", "3", "4", "5", "6", "7", "8", "9"}

\* /^\.{3}(?!\.)/
MatchPrevSeqRef(s) ==
    IF Len(s) >= 3 /\ s[1] = "." /\ s[2] = "." /\ s[3] = "."
       /\ (Len(s) = 3 \/ s[4] # ".")
    THEN 3 ELSE 0

\* /^[0-9]+\.{2}[0-9]+/
MatchRange(s) ==
    LET from == RunLen(s, 1, Digits)
        to == RunLen(s, from + 3, Digits)
    IN  IF from >= 1 /\ Len(s) >= from + 2 /\ s[from + 1] = "." /\ s[from + 2] = "."
           /\ to >= 1
        THEN from + 2 + to ELSE 0

\* /^[0-9]+\.{2}(?!\.)/
MatchRangeFrom(s) ==
    LET from == RunLen(s, 1, Digits)
    IN  IF from >= 1 /\ Len(s) >= from + 2 /\ s[from + 1] = "." /\ s[from + 2] = "."
           /\ (Len(s) = from + 2 \/ s[from + 3] # ".")
        THEN from + 2 ELSE 0

\* /^\.{2}[0-9]+/
MatchRangeTo(s) ==
    LET to == RunLen(s, 3, Digits)
    IN  IF Len(s) >= 3 /\ s[1] = "." /\ s[2] = "." /\ to >= 1 THEN 2 + to ELSE 0

\* the rules of part_005 in their order of priority
tokenParsers ==
    << [type |-> "BRANCH_SEPARATOR", rule |-> "branch"],
       [type |-> "PART_SEPARATOR",   rule |-> "part"],
       [type |-> "L_PAREN",          rule |-> "("],
       [type |-> "R_PAREN",          rule |-> ")"],
       [type |-> "L_CURLY",          rule |-> "{"],
       [type |-> "R_CURLY",          rule |-> "}"],
       [type |-> "L_SQUARE",         rule |-> "["],
       [type |-> "R_SQUARE",         rule |-> "]"],
       [type |-> "SORTED_SET_INIT",  rule |-> ":"],
       [type |-> "HEAD_REF",         rule |-> "&"],
       [type |-> "PREV_SEQ_REF",     rule |-> "...!"],
       [type |-> "PREV_SEQ_REF",     rule |-> "n..m"],
       [type |-> "PREV_SEQ_REF",     rule |-> "n.."],
       [type |-> "PREV_SEQ_REF",     rule |-> "..m"],
       [type |-> "ATOM",             rule |-> "<<"],
       [type |-> "ATOM",             rule |-> "atom"] >>

\* RegExpParser(regexp)(input) of part_005 (no rule passes `mod`)
parse(rule, s) ==
    CASE rule = "...!" -> MatchPrevSeqRef(s)
      [] rule = "n..m" -> MatchRange(s)
      [] rule = "n.."  -> MatchRangeFrom(s)
      [] rule = "..m"  -> MatchRangeTo(s)
      [] OTHER         -> RegExpParser(rule, s)

RECURSIVE FirstTokenParser(_, _)
\* for (const { type, parse } of tokenParsers): the first rule with a value
FirstTokenParser(s, k) ==
    IF k > Len(tokenParsers) THEN 0
    ELSE IF parse(tokenParsers[k].rule, s) > 0 THEN k
    ELSE FirstTokenParser(s, k + 1)

\* /^[\n\t ,\[\]\{\}\(\)]*$/.test(source)
Useless(s) ==
    \A i \in 1..Len(s) :
        s[i] \in {"\n", "\t", " ", ",", "[", "]", "{", "}", "(", ")"}

RECURSIVE remainingSourceLoop(_, _)
\* while (state.remainingSource): the tokens yielded after `acc`; when no rule
\* has a value the while loop runs on without end (ends |-> FALSE)
remainingSourceLoop(remainingSource, acc) ==
    IF remainingSource = <<>> THEN [ends |-> TRUE, tokens |-> acc]
    ELSE LET k == FirstTokenParser(remainingSource, 1)
         IN  IF k = 0 THEN [ends |-> FALSE, tokens |-> acc]
             ELSE LET n == parse(tokenParsers[k].rule, remainingSource)
                      token == [type  |-> tokenParsers[k].type,
                                value |-> SubSeq(remainingSource, 1, n)]
                  IN  remainingSourceLoop(Drop(remainingSource, n), Append(acc, token))

\* generateTokens(source: string): what the generator yields
generateTokens(src) ==
    IF Useless(src) THEN [ends |-> TRUE, tokens |-> <<>>]
    ELSE remainingSourceLoop(src, <<>>)

\* generateTokens(source: AsyncIterable<string>): generateTokens is a
\* function*, and for a source that is no string its body defines handleAsync
\* and ends with `return handleAsync()`.  What a generator returns is not
\* among the values it yields: the generator yields nothing, the chunks are
\* never asked for and the body of handleAsync never runs.
generateTokensOfChunks(iterable) == [ends |-> TRUE, tokens |-> <<>>]

\* tokenize(source: string): Array.from(generateTokens(source))
tokenizeString(src) == generateTokens(src)

\* tokenize(source: AsyncIterable<string>): Array.fromAsync(generateTokens(source)),
\* which walks the generator with its Symbol.iterator
tokenizeChunks(iterable) == generateTokensOfChunks(iterable)

(***************************************************************************)
(* concept.ts: Concept.                                                    *)
(***************************************************************************)
\* new Concept(key, parts): context is left undefined (<<>>; <<c>> once set)
NewConcept(key, parts) == [key |-> key, parts |-> parts, context |-> <<>>]

\* joinKeys that wraps the key of a part that has parts in [ ]
joinKeysBracketed(parts) ==
    IF Len(parts) = 0 THEN <<>>
    ELSE IF Len(parts) = 1 THEN parts[1].key
    ELSE JoinWith([i \in 1..Len(parts) |->
                      IF Len(parts[i].parts) = 0 THEN parts[i].key
                      ELSE <<"[">> \o parts[i].key \o <<"]">>], <<" ">>)

\* Concept.joinKeys
joinKeys(parts) ==
    IF Len(parts) = 0 THEN <<>>
    ELSE IF Len(parts) = 1 THEN parts[1].key
    ELSE JoinWith([i \in 1..Len(parts) |-> parts[i].key], <<" ">>)

\* fromParts without `if (parts.length === 1) return parts[0]`
fromPartsAlwaysWraps(parts) ==
    IF Len(parts) = 0 THEN NewConcept(<<>>, <<>>)
    ELSE NewConcept(joinKeys(parts), parts)

\* Concept.fromParts
fromParts(parts) ==
    IF Len(parts) = 0 THEN NewConcept(<<>>, <<>>)
    ELSE IF Len(parts) = 1 THEN parts[1]
    ELSE NewConcept(joinKeys(parts), parts)

(***************************************************************************)
(* unnamed/part_002: the AST nodes parse.ts builds.  parent 0 is null; a   *)
(* node's token is <<>> (null) or <<token>>.                               *)
(***************************************************************************)
\* new AstNode(init)
NewAstNode(type, token) ==
    [type |-> type, parent |-> 0, children |-> <<>>, token |-> token]

\* node.appendTo(parent) for a node just made: it becomes nodes[Len(ns) + 1]
appendTo(ns, node, parent) ==
    LET id == Len(ns) + 1
        withParent == [ns EXCEPT ![parent].children = Append(@, id)]
    IN  Append(withParent, [node EXCEPT !.parent = parent])

\* node.is(ParentheticalNode)
isParenthetical(ns, id) == ns[id].type = "PARENTHETICAL"

RECURSIVE IndexOf(_, _, _)
\* Array.prototype.indexOf from index i, 0-based; -1 is modelled as Len + 1
IndexOf(s, x, i) ==
    IF i > Len(s) THEN Len(s) + 1
    ELSE IF s[i] = x THEN i
    ELSE IndexOf(s, x, i + 1)

RECURSIVE LastNonParenthetical(_, _, _)
\* children.slice(0, index).toReversed().find(node => !node.is(ParentheticalNode))
LastNonParenthetical(ns, siblings, i) ==
    IF i < 1 THEN 0
    ELSE IF ~isParenthetical(ns, siblings[i]) THEN siblings[i]
    ELSE LastNonParenthetical(ns, siblings, i - 1)

\* prevSibling with the slice one short: children.slice(0, index - 1)
prevSiblingShortSlice(ns, id) ==
    LET siblings == IF ns[id].parent = 0 THEN <<>> ELSE ns[ns[id].parent].children
        at == IndexOf(siblings, id, 1)
    IN  IF at > Len(siblings) \/ at <= 2 THEN 0
        ELSE LastNonParenthetical(ns, siblings, at - 2)

RECURSIVE LastNonGroup(_, _, _)
\* children.slice(0, index).toReversed().find(node => node is no group node)
LastNonGroup(ns, siblings, i) ==
    IF i < 1 THEN 0
    ELSE IF ns[siblings[i]].type \notin {"PARENTHETICAL", "INLINE_BRANCHING", "COMPOUND"}
    THEN siblings[i]
    ELSE LastNonGroup(ns, siblings, i - 1)

\* prevSibling with a predicate that passes over every group node
prevSiblingNonGroup(ns, id) ==
    LET siblings == IF ns[id].parent = 0 THEN <<>> ELSE ns[ns[id].parent].children
        at == IndexOf(siblings, id, 1)
    IN  IF at > Len(siblings) \/ at <= 1 THEN 0
        ELSE LastNonGroup(ns, siblings, at - 1)

\* node.prevSibling(node => !node.is(ParentheticalNode)); 0 is null
prevSibling(ns, id) ==
    LET siblings == IF ns[id].parent = 0 THEN <<>> ELSE ns[ns[id].parent].children
        at == IndexOf(siblings, id, 1)
    IN  IF at > Len(siblings) \/ at <= 1 THEN 0
        ELSE LastNonParenthetical(ns, siblings, at - 1)

(***************************************************************************)
(* parse.ts: the permutation cache and combinePermutations.                *)
(***************************************************************************)
\* getPermutations(node) || []
getPermutations(c, node) == IF node \in DOMAIN c THEN c[node] ELSE <<>>

\* setPermutations(node, permutations)
setPermutations(c, node, permutations) ==
    [n \in DOMAIN c \cup {node} |-> IF n = node THEN permutations ELSE c[n]]

\* the loops nested the other way round: rightPermutations.forEach outermost
ProductRightOutermost(left, right) ==
    Flatten([j \in 1..Len(right) |-> [i \in 1..Len(left) |-> left[i] \o right[j]]])

\* the loops with the segments joined the wrong way round: [...right, ...left]
ProductSwapped(left, right) ==
    Flatten([i \in 1..Len(left) |-> [j \in 1..Len(right) |-> right[j] \o left[i]]])

\* the two nested forEach loops of combinePermutations
Product(left, right) ==
    Flatten([i \in 1..Len(left) |-> [j \in 1..Len(right) |-> left[i] \o right[j]]])

\* combinePermutations without `if (!rightPermutations?.length) return leftPermutations`
combinePermutationsZeroRight(segments) ==
    LET leftPermutations == segments[1]
        rightPermutations == IF Len(segments) >= 2 THEN segments[2] ELSE <<>>
    IN  IF Len(segments) < 2 THEN leftPermutations
        ELSE IF Len(leftPermutations) = 0 THEN rightPermutations
        ELSE Product(leftPermutations, rightPermutations)

RECURSIVE combinePermutations(_)
\* combinePermutations(...segments), called with at least one segment
combinePermutations(segments) ==
    LET leftPermutations == segments[1]
        rightPermutations == IF Len(segments) >= 2 THEN segments[2] ELSE <<>>
        rest == IF Len(segments) >= 2 THEN Drop(segments, 2) ELSE <<>>
    IN  IF Len(rightPermutations) = 0 THEN leftPermutations
        ELSE IF Len(leftPermutations) = 0 THEN rightPermutations
        ELSE IF Len(rest) = 0 THEN Product(leftPermutations, rightPermutations)
        ELSE combinePermutations(
                 <<Product(leftPermutations, rightPermutations)>> \o rest)

RECURSIVE ReduceChildren(_, _, _)
\* children.reduce((left, child) => combinePermutations(left, right), left)
ReduceChildren(c, children, left) ==
    IF children = <<>> THEN left
    ELSE ReduceChildren(c, Tail(children),
             combinePermutations(<<left, getPermutations(c, Head(children))>>))

\* ConceptParsingContext.close
close(ctx) ==
    LET combinedPermutations ==
            ReduceChildren(ctx.cache, ctx.nodes[ctx.branch].children, <<>>)
    IN  [ctx EXCEPT !.cache = setPermutations(@, ctx.branch, combinedPermutations)]

\* a handler's throw: parseConcepts ends there
Throw(ctx, message) == [ctx EXCEPT !.error = message]

(***************************************************************************)
(* parse.ts: tokenHandlers.  A handler takes the context (ctx.token is the *)
(* token at hand) and gives the context after `context.branch =            *)
(* handler(context)`, or the context with the error it throws.             *)
(***************************************************************************)
tokenHandlers_ATOM(ctx) ==
    LET atom == Len(ctx.nodes) + 1
    IN  [ctx EXCEPT
            !.nodes = appendTo(@, NewAstNode("ATOM", <<ctx.token>>), ctx.branch),
            !.cache = setPermutations(@, atom,
                          << <<NewConcept(ctx.token.value, <<>>)>> >>)]

\* BRANCH_SEPARATOR without ctx.close()
tokenHandlers_BRANCH_SEPARATOR_NoClose(ctx) ==
    [ctx EXCEPT
        !.nodes = appendTo(@, NewAstNode("BRANCH", <<ctx.token>>),
                           ctx.nodes[ctx.branch].parent),
        !.branch = Len(ctx.nodes) + 1]

tokenHandlers_BRANCH_SEPARATOR(ctx) ==
    LET closed == close(ctx)
    IN  [closed EXCEPT
            !.nodes = appendTo(@, NewAstNode("BRANCH", <<ctx.token>>),
                               ctx.nodes[ctx.branch].parent),
            !.branch = Len(ctx.nodes) + 1]

tokenHandlers_PART_SEPARATOR(ctx) == ctx

\* L_PAREN, L_CURLY and L_SQUARE: the group node, then its first branch
OpenGroup(ctx, type) ==
    LET branching == Len(ctx.nodes) + 1
        withGroup == appendTo(ctx.nodes, NewAstNode(type, <<ctx.token>>), ctx.branch)
    IN  [ctx EXCEPT
            !.nodes = appendTo(withGroup, NewAstNode("BRANCH", <<>>), branching),
            !.branch = branching + 1]

tokenHandlers_L_PAREN(ctx) == OpenGroup(ctx, "PARENTHETICAL")

tokenHandlers_L_CURLY(ctx) == OpenGroup(ctx, "INLINE_BRANCHING")

tokenHandlers_L_SQUARE(ctx) == OpenGroup(ctx, "COMPOUND")

\* the children of a group that are not parentheticals
NonParentheticalChildren(ns, id) ==
    SelectSeq(ns[id].children, LAMBDA child : ~isParenthetical(ns, child))

\* a closer that returns ctx.branch: the cursor stays inside the closed group
ResumeInside(ctx) == ctx.branch

\* ctx.branch.parent?.parent || ctx.root.children.at(-1)!
ResumeAt(ctx) ==
    LET parent == ctx.nodes[ctx.branch].parent
        grand == IF parent = 0 THEN 0 ELSE ctx.nodes[parent].parent
    IN  IF grand # 0 THEN grand ELSE ctx.nodes[1].children[Len(ctx.nodes[1].children)]

tokenHandlers_R_PAREN(ctx) ==
    LET parentheticalNode == ctx.nodes[ctx.branch].parent
    IN  IF parentheticalNode = 0 \/ ~isParenthetical(ctx.nodes, parentheticalNode)
        THEN Throw(ctx, "Unexpected R_PAREN")
        ELSE
          LET closed == close(ctx)
              prefixNode == prevSibling(closed.nodes, parentheticalNode)
              leftPermutations ==
                  IF prefixNode # 0 THEN getPermutations(closed.cache, prefixNode)
                  ELSE <<>>
              children == NonParentheticalChildren(closed.nodes, parentheticalNode)
              pushed ==
                  Flatten([i \in 1..Len(children) |->
                      LET combinedPermutations ==
                              combinePermutations(
                                  <<leftPermutations,
                                    getPermutations(closed.cache, children[i])>>)
                      IN  [j \in 1..Len(combinedPermutations) |->
                              fromParts(combinedPermutations[j])]])
          IN  [closed EXCEPT !.results = @ \o pushed, !.branch = ResumeAt(closed)]

\* R_CURLY whose reduce returns branchPermutations, not agg.concat(branchPermutations)
tokenHandlers_R_CURLY_LastBranch(ctx) ==
    LET inlineBranchingNode == ctx.nodes[ctx.branch].parent
    IN  IF inlineBranchingNode = 0
           \/ ctx.nodes[inlineBranchingNode].type # "INLINE_BRANCHING"
        THEN Throw(ctx, "Unexpected R_CURLY")
        ELSE
          LET closed == close(ctx)
              children == NonParentheticalChildren(closed.nodes, inlineBranchingNode)
              permutations == getPermutations(closed.cache, children[Len(children)])
          IN  [closed EXCEPT
                  !.cache = setPermutations(@, inlineBranchingNode, permutations),
                  !.branch = ResumeAt(closed)]

tokenHandlers_R_CURLY(ctx) ==
    LET inlineBranchingNode == ctx.nodes[ctx.branch].parent
    IN  IF inlineBranchingNode = 0
           \/ ctx.nodes[inlineBranchingNode].type # "INLINE_BRANCHING"
        THEN Throw(ctx, "Unexpected R_CURLY")
        ELSE
          LET closed == close(ctx)
              children == NonParentheticalChildren(closed.nodes, inlineBranchingNode)
              permutations ==
                  Flatten([i \in 1..Len(children) |->
                              getPermutations(closed.cache, children[i])])
          IN  [closed EXCEPT
                  !.cache = setPermutations(@, inlineBranchingNode, permutations),
                  !.branch = ResumeAt(closed)]

\* R_SQUARE without the Concept.fromParts wrap: the branch permutations as they are
tokenHandlers_R_SQUARE_Unwrapped(ctx) ==
    LET compoundBranchingNode == ctx.nodes[ctx.branch].parent
    IN  IF compoundBranchingNode = 0
           \/ ctx.nodes[compoundBranchingNode].type # "COMPOUND"
        THEN Throw(ctx, "Unexpected R_SQUARE")
        ELSE
          LET closed == close(ctx)
              children == closed.nodes[compoundBranchingNode].children
              flat == Flatten([i \in 1..Len(children) |->
                                  getPermutations(closed.cache, children[i])])
          IN  [closed EXCEPT
                  !.cache = setPermutations(@, compoundBranchingNode, flat),
                  !.branch = ResumeAt(closed)]

tokenHandlers_R_SQUARE(ctx) ==
    LET compoundBranchingNode == ctx.nodes[ctx.branch].parent
    IN  IF compoundBranchingNode = 0
           \/ ctx.nodes[compoundBranchingNode].type # "COMPOUND"
        THEN Throw(ctx, "Unexpected R_SQUARE")
        ELSE
          LET closed == close(ctx)
              children == closed.nodes[compoundBranchingNode].children
              flat == Flatten([i \in 1..Len(children) |->
                                  getPermutations(closed.cache, children[i])])
              permutations == [j \in 1..Len(flat) |-> <<fromParts(flat[j])>>]
          IN  [closed EXCEPT
                  !.cache = setPermutations(@, compoundBranchingNode, permutations),
                  !.branch = ResumeAt(closed)]

\* a handler that leaves the branch as it is and throws nothing
tokenHandlers_Ignored(ctx) == ctx

\* HEAD_REF, PREV_SEQ_REF and SORTED_SET_INIT
tokenHandlers_NotImplemented(ctx) == Throw(ctx, "Function not implemented.")

\* the keys of tokenHandlers
HandledTypes ==
    {"ATOM", "BRANCH_SEPARATOR", "PART_SEPARATOR", "L_PAREN", "R_PAREN",
     "L_CURLY", "R_CURLY", "L_SQUARE", "R_SQUARE", "HEAD_REF", "PREV_SEQ_REF",
     "SORTED_SET_INIT"}

\* the body of the for-loop: tokenHandlers[token.type], its call, the assignment
tokenHandlers(ctx) ==
    LET type == ctx.token.type
    IN  CASE type = "ATOM"             -> tokenHandlers_ATOM(ctx)
          [] type = "BRANCH_SEPARATOR" -> tokenHandlers_BRANCH_SEPARATOR(ctx)
          [] type = "PART_SEPARATOR"   -> tokenHandlers_PART_SEPARATOR(ctx)
          [] type = "L_PAREN"          -> tokenHandlers_L_PAREN(ctx)
          [] type = "R_PAREN"          -> tokenHandlers_R_PAREN(ctx)
          [] type = "L_CURLY"          -> tokenHandlers_L_CURLY(ctx)
          [] type = "R_CURLY"          -> tokenHandlers_R_CURLY(ctx)
          [] type = "L_SQUARE"         -> tokenHandlers_L_SQUARE(ctx)
          [] type = "R_SQUARE"         -> tokenHandlers_R_SQUARE(ctx)
          [] type \in {"HEAD_REF", "PREV_SEQ_REF", "SORTED_SET_INIT"}
                                       -> tokenHandlers_NotImplemented(ctx)
          [] OTHER                     -> Throw(ctx, "No handler for token type")

\* a read-out that puts the root branches' concepts before the results so far
ReadoutUnshift(ctx) ==
    LET children == ctx.nodes[1].children
        pushed == Flatten([i \in 1..Len(children) |->
                     LET permutations == getPermutations(ctx.cache, children[i])
                     IN  [j \in 1..Len(permutations) |-> fromParts(permutations[j])]])
    IN  [ctx EXCEPT !.results = pushed \o @]

\* root.children.forEach(child => context.results.push(...))
Readout(ctx) ==
    LET children == ctx.nodes[1].children
        pushed == Flatten([i \in 1..Len(children) |->
                     LET permutations == getPermutations(ctx.cache, children[i])
                     IN  [j \in 1..Len(permutations) |-> fromParts(permutations[j])]])
    IN  [ctx EXCEPT !.results = @ \o pushed]

\* const root = new RootNode(); branch: new BranchNode().appendTo(root)
NewContext(toks) ==
    [nodes   |-> appendTo(<<NewAstNode("ROOT", <<>>)>>, NewAstNode("BRANCH", <<>>), 1),
     cache   |-> <<>>,
     results |-> <<>>,
     branch  |-> 2,
     token   |-> IF toks = <<>> THEN <<>> ELSE toks[1],
     error   |-> "none"]

RECURSIVE ForLoop(_, _, _)
\* for (const token of tokenize(source)) from the i-th token on
ForLoop(ctx, toks, i) ==
    IF i > Len(toks) \/ ctx.error # "none" THEN ctx
    ELSE ForLoop(tokenHandlers([ctx EXCEPT !.token = toks[i]]), toks, i + 1)

\* parseConcepts(source): what it returns, or the error it throws
parseConcepts(src) ==
    LET lexed == tokenize(src)
        looped == ForLoop(NewContext(lexed.tokens), lexed.tokens, 1)
    IN  IF ~lexed.ok THEN [error |-> "Unexpected token", results |-> <<>>]
        ELSE IF looped.error # "none" THEN [error |-> looped.error, results |-> <<>>]
        ELSE [error |-> "none", results |-> Readout(close(looped)).results]

(***************************************************************************)
(* concept.ts: serialize and deserialize.  A SerializedConcept has a key   *)
(* and parts and nothing else.                                             *)
(***************************************************************************)
RECURSIVE serialize(_)
serialize(c) ==
    [key |-> c.key, parts |-> [i \in 1..Len(c.parts) |-> serialize(c.parts[i])]]

\* deserialize that drops the parts: new Concept(serialized.key)
deserializeKeyOnly(serialized) == NewConcept(serialized.key, <<>>)

RECURSIVE deserialize(_)
deserialize(serialized) ==
    NewConcept(serialized.key,
               [i \in 1..Len(serialized.parts) |-> deserialize(serialized.parts[i])])

RECURSIVE StructurallyEqual(_, _)
\* same key and the same parts, recursively, in the same order
StructurallyEqual(c, d) ==
    /\ c.key = d.key
    /\ Len(c.parts) = Len(d.parts)
    /\ \A i \in 1..Len(c.parts) : StructurallyEqual(c.parts[i], d.parts[i])

(***************************************************************************)
(* concept.ts: getTagSet and toMask.  `cached` computes a getter once per   *)
(* instance; the getters read key and parts only, which do not change.     *)
(***************************************************************************)
\* String.prototype.toUpperCase on the letters the keys are made of
UpperCase(ch) ==
    CASE ch = "a" -> "A"
      [] ch = "b" -> "B"
      [] ch = "d" -> "D"
      [] ch = "w" -> "W"
      [] ch = "x" -> "X"
      [] ch = "y" -> "Y"
      [] OTHER    -> ch

toUpperCase(key) == [i \in 1..Len(key) |-> UpperCase(key[i])]

\* String.prototype.startsWith for a one-character prefix
startsWith(key, ch) == Len(key) >= 1 /\ key[1] = ch

\* Object.values(TriggerDirective): the module ./trigger supplies them
TriggerDirective == vocabulary

RECURSIVE getTagSetIndependentIfs(_)
\* getTagSet with `if` where the code has `else if`
getTagSetIndependentIfs(c) ==
    IF Len(c.parts) = 0
    THEN {"ATOM"}
           \cup (IF startsWith(c.key, "$") THEN {"VARIABLE"} ELSE {})
           \cup (IF startsWith(c.key, "@") THEN {"DIRECTIVE"} ELSE {})
           \cup (IF toUpperCase(c.key) = c.key THEN {"COMMAND_NAME"} ELSE {"LITERAL"})
    ELSE LET partTags ==
                 UNION {getTagSetIndependentIfs(c.parts[i]) : i \in 1..Len(c.parts)}
         IN  {"COMPOUND"}
               \cup (IF "COMMAND_NAME" \in getTagSetIndependentIfs(c.parts[1])
                     THEN {"COMMAND"} ELSE {})
               \cup (IF "PATTERN" \in partTags \/ "VARIABLE" \in partTags
                     THEN {"PATTERN"} ELSE {})
               \cup (IF "TRIGGER_NAME" \in partTags \/ "TRIGGER_CLAUSE" \in partTags
                     THEN {"TRIGGER"} ELSE {})
               \cup (IF Len(c.parts) = 3 /\ c.parts[3].key \in TriggerDirective
                     THEN {"TRIGGER_CLAUSE"} ELSE {"LITERAL"})

RECURSIVE getTagSetPatternFirst(_)
\* getTagSet with the PATTERN test moved before the COMMAND test
getTagSetPatternFirst(c) ==
    IF Len(c.parts) = 0
    THEN {"ATOM",
          IF startsWith(c.key, "$") THEN "VARIABLE"
          ELSE IF startsWith(c.key, "@") THEN "DIRECTIVE"
          ELSE IF toUpperCase(c.key) = c.key THEN "COMMAND_NAME"
          ELSE "LITERAL"}
    ELSE LET partTags ==
                 UNION {getTagSetPatternFirst(c.parts[i]) : i \in 1..Len(c.parts)}
         IN  {"COMPOUND",
              IF "PATTERN" \in partTags \/ "VARIABLE" \in partTags THEN "PATTERN"
              ELSE IF "COMMAND_NAME" \in getTagSetPatternFirst(c.parts[1])
                   THEN "COMMAND"
              ELSE IF "TRIGGER_NAME" \in partTags \/ "TRIGGER_CLAUSE" \in partTags
                   THEN "TRIGGER"
              ELSE IF Len(c.parts) = 3 /\ c.parts[3].key \in TriggerDirective
                   THEN "TRIGGER_CLAUSE"
              ELSE "LITERAL"}

RECURSIVE getTagSet(_)
\* Concept.getTagSet
getTagSet(c) ==
    IF Len(c.parts) = 0
    THEN {"ATOM",
          IF startsWith(c.key, "$") THEN "VARIABLE"
          ELSE IF startsWith(c.key, "@") THEN "DIRECTIVE"
          ELSE IF toUpperCase(c.key) = c.key THEN "COMMAND_NAME"
          ELSE "LITERAL"}
    ELSE LET partTags == UNION {getTagSet(c.parts[i]) : i \in 1..Len(c.parts)}
         IN  {"COMPOUND",
              IF "COMMAND_NAME" \in getTagSet(c.parts[1]) THEN "COMMAND"
              ELSE IF "PATTERN" \in partTags \/ "VARIABLE" \in partTags THEN "PATTERN"
              ELSE IF "TRIGGER_NAME" \in partTags \/ "TRIGGER_CLAUSE" \in partTags
                   THEN "TRIGGER"
              ELSE IF Len(c.parts) = 3 /\ c.parts[3].key \in TriggerDirective
                   THEN "TRIGGER_CLAUSE"
              ELSE "LITERAL"}

\* Concept.is
is(c, tag) == tag \in getTagSet(c)

RECURSIVE toMaskKeepsName(_)
\* toMask whose placeholder keeps the variable's name: new Concept('$' + this.key)
toMaskKeepsName(c) ==
    IF is(c, "LITERAL") THEN c
    ELSE IF is(c, "VARIABLE") THEN NewConcept(<<"$">> \o c.key, <<>>)
    ELSE NewConcept(c.key, [i \in 1..Len(c.parts) |-> toMaskKeepsName(c.parts[i])])

RECURSIVE toMask(_)
\* Concept.toMask
toMask(c) ==
    IF is(c, "LITERAL") THEN c
    ELSE IF is(c, "VARIABLE") THEN NewConcept(<<"$">>, <<>>)
    ELSE NewConcept(c.key, [i \in 1..Len(c.parts) |-> toMask(c.parts[i])])

(***************************************************************************)
(* ast.ts: AstNode.  The tree is an arena: a node's identity is its index, *)
(* parent 0 is null, token is <<>> (null) or <<token>>, and permutations   *)
(* is _cache.permutations: <<>> while undefined, <<p>> once assigned p.    *)
(***************************************************************************)
\* new AstNode(init)
AstNode(type, parent, token) ==
    [type |-> type, children |-> <<>>, parent |-> parent, token |-> token,
     permutations |-> <<>>]

\* parent.createChild(init): the tree with the child, whose index is Len + 1
createChild(t, parent, type, token) ==
    [i \in 1..(Len(t) + 1) |->
        IF i = Len(t) + 1 THEN AstNode(type, parent, token)
        ELSE IF i = parent THEN [t[i] EXCEPT !.children = Append(@, Len(t) + 1)]
        ELSE t[i]]

\* normalizePredicate: a type, or a list of types, is the test of membership
normalizePredicate(t, n, types) == t[n].type \in types

RECURSIVE traverse(_, _, _)
\* traverse(node => node.parent, predicate): 0 is null
traverse(t, n, types) ==
    IF t[n].parent = 0 THEN 0
    ELSE IF normalizePredicate(t, t[n].parent, types) THEN t[n].parent
    ELSE traverse(t, t[n].parent, types)

findAncestor(t, n, types) == traverse(t, n, types)

findClosest(t, n, types) ==
    IF normalizePredicate(t, n, types) THEN n ELSE findAncestor(t, n, types)

RECURSIVE findClosestBefore(_, _, _, _)
findClosestBefore(t, n, types, anti) ==
    IF normalizePredicate(t, n, types) THEN n
    ELSE IF normalizePredicate(t, n, anti) THEN 0
    ELSE IF t[n].parent = 0 THEN 0
    ELSE findClosestBefore(t, t[n].parent, types, anti)

\* requireClosest: 0 stands for the throw of 'Could not find closest node'
requireClosest(t, n, types) ==
    IF normalizePredicate(t, n, types) THEN n ELSE traverse(t, n, types)

\* requireClosestBefore: 0 stands for the throw of
\* 'Could not find closest node before antipredicate'
requireClosestBefore(t, n, types, anti) == findClosestBefore(t, n, types, anti)

\* requireParent: 0 stands for the throw of 'Node has no parent'
requireParent(t, n) == t[n].parent

(***************************************************************************)
(* concept.ts: astVisitors and combinePermutationSegments.                 *)
(***************************************************************************)
RECURSIVE combinePermutationSegments(_)
combinePermutationSegments(segments) ==
    IF Len(segments) = 0 THEN <<>>
    ELSE LET firstSegmentPermutations == Head(segments)
             restCombined == combinePermutationSegments(Tail(segments))
         IN  IF Len(restCombined) = 0 THEN firstSegmentPermutations
             ELSE IF Len(firstSegmentPermutations) = 0 THEN restCombined
             ELSE Flatten([i \in 1..Len(firstSegmentPermutations) |->
                              [j \in 1..Len(restCombined) |->
                                  firstSegmentPermutations[i] \o restCombined[j]]])

\* node.children.filter(child => child.type === 'BRANCH')
BranchChildren(t, n) ==
    LET IsBranch(c) == t[c].type = "BRANCH" IN SelectSeq(t[n].children, IsBranch)

\* node._cache.permutations = permutations
SetCache(t, n, permutations) == [t EXCEPT ![n].permutations = <<permutations>>]

\* branch._cache.permutations || []
CacheOrEmpty(t, n) == IF t[n].permutations = <<>> THEN <<>> ELSE t[n].permutations[1]

\* astVisitors.ATOM
astVisitors_ATOM(t, n) ==
    SetCache(t, n, << <<NewConcept(t[n].token[1].value, <<>>)>> >>)

\* astVisitors.BRANCH
astVisitors_BRANCH(t, n) ==
    LET Assigned(c) == t[c].permutations # <<>>
        kept == SelectSeq(t[n].children, Assigned)
    IN  SetCache(t, n, combinePermutationSegments(
                           [i \in 1..Len(kept) |-> t[kept[i]].permutations[1]]))

\* astVisitors.INLINE_BRANCHING
astVisitors_INLINE_BRANCHING(t, n) ==
    LET branches == BranchChildren(t, n)
    IN  SetCache(t, n, Flatten([i \in 1..Len(branches) |-> CacheOrEmpty(t, branches[i])]))

\* astVisitors.COMPOUND
astVisitors_COMPOUND(t, n) ==
    LET branches == BranchChildren(t, n)
        Wrapped(b) == LET ps == CacheOrEmpty(t, b)
                      IN  [k \in 1..Len(ps) |-> <<fromParts(ps[k])>>]
    IN  SetCache(t, n, Flatten([i \in 1..Len(branches) |-> Wrapped(branches[i])]))

\* astVisitors.ROOT: this.COMPOUND(node, concepts)
astVisitors_ROOT(t, n) == astVisitors_COMPOUND(t, n)

\* astVisitors.PARENTHETICAL: what it pushes to `concepts` (a parenthetical
\* always has a parent, so the throw of 'PARENTHETICAL must have a parent.'
\* is left to the caller's test of t[n].parent)
astVisitors_PARENTHETICAL(t, n) ==
    LET branches == BranchChildren(t, n)
        parentPermutations == CacheOrEmpty(t, t[n].parent)
        WithLast(branchPermutation) ==
            LET having == SelectSeq(parentPermutations, LAMBDA pp : Len(pp) > 0)
            IN  [k \in 1..Len(having) |->
                    fromParts(<<having[k][Len(having[k])]>> \o branchPermutation)]
        OfBranch(b) == LET ps == CacheOrEmpty(t, b)
                       IN  Flatten([k \in 1..Len(ps) |-> WithLast(ps[k])])
    IN  Flatten([i \in 1..Len(branches) |-> OfBranch(branches[i])])

\* the callback of parseAll: astVisitors[node.type]?.(node, concepts), on a run
\* r = [tree, cursor, concepts, completed, thrown, visiting]
Visit(r, n) ==
    LET t == r.tree
        type == t[n].type
    IN  IF type = "PARENTHETICAL"
        THEN IF t[n].parent = 0
             THEN [r EXCEPT !.thrown = "PARENTHETICAL must have a parent."]
             ELSE [r EXCEPT !.concepts = @ \o astVisitors_PARENTHETICAL(t, n)]
        ELSE [r EXCEPT !.tree =
                 CASE type = "ROOT" -> astVisitors_ROOT(t, n)
                   [] type = "ATOM" -> astVisitors_ATOM(t, n)
                   [] type = "BRANCH" -> astVisitors_BRANCH(t, n)
                   [] type = "INLINE_BRANCHING" -> astVisitors_INLINE_BRANCHING(t, n)
                   [] type = "COMPOUND" -> astVisitors_COMPOUND(t, n)
                   [] OTHER -> t]

(***************************************************************************)
(* ast.ts: astTokenHandlers and AstNode.parseTokens.  A handler takes the  *)
(* run and the token and gives the run after `cursor = handler(token,      *)
(* cursor, onNodeComplete)`, or the run with the error thrown.  completed   *)
(* lists the nodes onNodeComplete was called with, in the order of the      *)
(* calls; parseAll's callback visits the node, parseTokens' default         *)
(* callback does nothing.                                                   *)
(***************************************************************************)
\* onNodeComplete(node)
onNodeComplete(r, n) ==
    LET called == [r EXCEPT !.completed = Append(@, n)]
    IN  IF r.visiting THEN Visit(called, n) ELSE called

\* applyCallback(value, callback): callback?.(value); return value
applyCallback(r, n) == [onNodeComplete(r, n) EXCEPT !.cursor = n]

Raise(r, message) == [r EXCEPT !.thrown = message]

\* cursor.requireClosest('BRANCH').createChild({ type, token }) as the cursor
CreateLeaf(r, type, token) ==
    LET b == requireClosest(r.tree, r.cursor, {"BRANCH"})
    IN  IF b = 0 THEN Raise(r, "Could not find closest node")
        ELSE [r EXCEPT !.tree = createChild(r.tree, b, type, <<token>>),
                       !.cursor = Len(r.tree) + 1]

astTokenHandlers_ATOM(r, token) ==
    LET made == CreateLeaf(r, "ATOM", token)
    IN  IF made.thrown # "none" THEN made ELSE applyCallback(made, made.cursor)

astTokenHandlers_HEAD_REF(r, token) ==
    LET made == CreateLeaf(r, "HEAD_REF", token)
    IN  IF made.thrown # "none" THEN made ELSE applyCallback(made, made.cursor)

astTokenHandlers_PREV_SEQ_REF(r, token) ==
    LET made == CreateLeaf(r, "PREV_SEQ_REF", token)
    IN  IF made.thrown # "none" THEN made ELSE applyCallback(made, made.cursor)

\* no call of onNodeComplete
astTokenHandlers_SORTED_SET_INIT(r, token) == CreateLeaf(r, "SORTED_SET_INIT", token)

\* BRANCH_SEPARATOR that creates the next branch under the current branch
astTokenHandlers_BRANCH_SEPARATOR_Nested(r, token) ==
    LET b == requireClosest(r.tree, r.cursor, {"BRANCH"})
        nextBranch == Len(r.tree) + 1
        grown == [r EXCEPT !.tree = createChild(r.tree, b, "BRANCH", <<token>>)]
    IN  IF b = 0 THEN Raise(r, "Could not find closest node")
        ELSE [onNodeComplete(grown, b) EXCEPT !.cursor = nextBranch]

astTokenHandlers_BRANCH_SEPARATOR(r, token) ==
    LET group == requireClosest(r.tree, r.cursor,
                                {"INLINE_BRANCHING", "PARENTHETICAL", "COMPOUND"})
        nextBranch == Len(r.tree) + 1
        grown == [r EXCEPT !.tree = createChild(r.tree, group, "BRANCH", <<token>>)]
        b == requireClosest(grown.tree, r.cursor, {"BRANCH"})
    IN  IF group = 0 THEN Raise(r, "Could not find closest node")
        ELSE IF b = 0 THEN Raise(grown, "Could not find closest node")
        ELSE [onNodeComplete(grown, b) EXCEPT !.cursor = nextBranch]

astTokenHandlers_PART_SEPARATOR(r, token) == r

\* cursor.requireClosest('BRANCH').createChild({ type, token }).createChild(...)
CreateGroupInBranch(r, type, token) ==
    LET group == Len(r.tree) + 1
        withGroup == createChild(r.tree, requireClosest(r.tree, r.cursor, {"BRANCH"}),
                                 type, <<token>>)
    IN  [r EXCEPT !.tree = createChild(withGroup, group, "BRANCH", <<>>),
                  !.cursor = group + 1]

\* cursor.createChild({ type, token }).createChild({ type: 'BRANCH' })
CreateGroup(r, type, token) ==
    LET group == Len(r.tree) + 1
        withGroup == createChild(r.tree, r.cursor, type, <<token>>)
    IN  [r EXCEPT !.tree = createChild(withGroup, group, "BRANCH", <<>>),
                  !.cursor = group + 1]

astTokenHandlers_L_PAREN(r, token) == CreateGroup(r, "PARENTHETICAL", token)

astTokenHandlers_L_CURLY(r, token) == CreateGroup(r, "INLINE_BRANCHING", token)

astTokenHandlers_L_SQUARE(r, token) == CreateGroup(r, "COMPOUND", token)

\* requireClosestBefore throws, so `if (!parenthetical) return cursor` is dead
astTokenHandlers_R_PAREN(r, token) ==
    LET parenthetical == requireClosestBefore(r.tree, r.cursor, {"PARENTHETICAL"},
                                              {"INLINE_BRANCHING", "COMPOUND"})
        called == onNodeComplete(r, parenthetical)
    IN  IF parenthetical = 0
        THEN Raise(r, "Could not find closest node before antipredicate")
        ELSE IF called.thrown # "none" THEN called
        ELSE IF requireParent(r.tree, parenthetical) = 0
        THEN Raise(called, "Node has no parent")
        ELSE [called EXCEPT !.cursor = requireParent(r.tree, parenthetical)]

astTokenHandlers_R_CURLY(r, token) ==
    LET inlineBranching == requireClosestBefore(r.tree, r.cursor, {"INLINE_BRANCHING"},
                                                {"PARENTHETICAL", "COMPOUND"})
    IN  IF inlineBranching = 0
        THEN Raise(r, "Could not find closest node before antipredicate")
        ELSE applyCallback(r, inlineBranching)

astTokenHandlers_R_SQUARE(r, token) ==
    LET compound == requireClosestBefore(r.tree, r.cursor, {"COMPOUND"},
                                         {"PARENTHETICAL", "INLINE_BRANCHING"})
    IN  IF compound = 0
        THEN Raise(r, "Could not find closest node before antipredicate")
        ELSE applyCallback(r, compound)

\* the keys of astTokenHandlers
AstHandledTypes ==
    {"ATOM", "HEAD_REF", "PREV_SEQ_REF", "SORTED_SET_INIT", "BRANCH_SEPARATOR",
     "PART_SEPARATOR", "L_PAREN", "R_PAREN", "L_CURLY", "R_CURLY", "L_SQUARE",
     "R_SQUARE"}

\* if (!handler) throw new Error(`No handler for token type ${token.type}`)
astTokenHandlers_None(r, token) == Raise(r, "No handler for token type")

\* closableNodes without 'ROOT'
closableNodesBelowRoot == {"BRANCH", "COMPOUND", "INLINE_BRANCHING", "PARENTHETICAL"}

\* const closableNodes
closableNodes == {"ROOT", "BRANCH", "COMPOUND", "INLINE_BRANCHING", "PARENTHETICAL"}

RECURSIVE BubbleLoop(_, _)
\* while (bubble) { onNodeComplete(bubble); bubble = ... }
BubbleLoop(r, bubble) ==
    IF bubble = 0 \/ r.thrown # "none" THEN r
    ELSE LET called == onNodeComplete(r, bubble)
         IN  BubbleLoop(called,
                        IF r.tree[bubble].type = "PARENTHETICAL"
                        THEN findAncestor(r.tree, bubble, {"BRANCH"})
                        ELSE findAncestor(r.tree, bubble, closableNodes))

\* parseTokens before its for-loop: the root and its first branch, the cursor
StartRun(callback) ==
    [tree |-> createChild(<<AstNode("ROOT", 0, <<>>)>>, 1, "BRANCH", <<>>),
     cursor |-> 2, concepts |-> <<>>, completed |-> <<>>, thrown |-> "none",
     visiting |-> callback]

(***************************************************************************)
(* The sources parseConcepts is given.                                     *)
(***************************************************************************)
Alphabet == {"a", "b", " ", ",", "\n", "(", ")", "{", "}", "[", "]"}

\* every source of at most MaxSrcLen characters
ShortSources == SeqsUpTo(Alphabet, MaxSrcLen)

AtomTexts == {<<"a">>, <<"b">>}

\* y1, ..., yn
Listing(ys) == JoinWith(ys, <<",", " ">>)

\* opener y1, ..., yn closer
Group(opener, ys, closer) == <<opener>> \o Listing(ys) \o <<closer>>

\* x opener y1, ..., yn closer
GroupSource(x, opener, ys, closer) == x \o <<" ">> \o Group(opener, ys, closer)

Brackets == {<<"(", ")">>, <<"{", "}">>, <<"[", "]">>}

\* x (y1, ..., yn), x {y1, ..., yn}, x [y1, ..., yn], n >= 0
GroupSources ==
    {GroupSource(x, b[1], ys, b[2]) :
        x \in AtomTexts, b \in Brackets, ys \in SeqsUpTo(AtomTexts, MaxAlts)}

\* atoms separated by branch separators, and by blanks
Separators == {<<",">>, <<",", " ">>, <<"\n">>, <<" ">>, <<"\t">>, <<" ", " ">>}

ListSources ==
    {JoinWith(ys, sep) : ys \in NonEmptySeqsUpTo(AtomTexts, MaxAlts), sep \in Separators}

\* x o1 y o2 z1, ..., zn c2 tail c1, such as a [b {a, b}] and a {b {a, b}, a}
NestedSource(x, outer, y, inner, zs, tail) ==
    x \o <<" ", outer[1]>> \o y \o <<" ">> \o Group(inner[1], zs, inner[2])
      \o tail \o <<outer[2]>>

NestedSources ==
    {NestedSource(x, outer, y, inner, zs, tail) :
        x \in {<<"a">>}, outer \in Brackets, y \in AtomTexts, inner \in Brackets,
        zs \in NonEmptySeqsUpTo(AtomTexts, MaxAlts), tail \in {<<>>, <<",", " ", "b">>}}

\* two groups side by side, such as {a, b} {a, b} and a {} b
PairSources ==
    {Group(l[1], ys, l[2]) \o <<" ">> \o Group(r[1], zs, r[2]) :
        l \in Brackets, r \in Brackets,
        ys \in SeqsUpTo({<<"a">>}, MaxAlts), zs \in SeqsUpTo({<<"b">>}, MaxAlts)}

\* a source cut before its last k characters: its closing brackets are missing
CutSources ==
    {SubSeq(s, 1, Len(s) - 1) : s \in GroupSources \cup NestedSources}
    \cup {SubSeq(s, 1, Len(s) - 2) : s \in {n \in NestedSources : n[Len(n) - 1] \in {")", "}", "]"}}}

\* the reference markers and the quoted atom
MarkerSources ==
    { <<":">>, <<"&">>, <<"a", " ", "&">>, <<"[", ":", "a", "]">>,
      <<".", ".", ".", "a">>, <<"a", " ", ".", ".", ".", " ", "b">>,
      <<".", ".", ".">>, <<"<", "<", "a", " ", "b", ">", ">">>,
      <<"<", "<", "a", ">", ">", "b">> }

\* x followed by two groups of one atom each: x {y} (z), x (y) (z), ...
ChainSources ==
    {x \o <<" ">> \o Group(l[1], <<y>>, l[2]) \o <<" ">> \o Group(r[1], <<z>>, r[2]) :
        x \in {<<"a">>}, l \in Brackets, r \in Brackets, y \in {<<"b">>},
        z \in {<<"a">>, <<"c">>}}

\* groups of two different alternatives side by side: {a, b} {a, b},
\* {a, b} {b, a} {a, b}, and {a, b} (b) {b, a} with a parenthetical between
ChoiceSources ==
    LET ab == Group("{", <<<<"a">>, <<"b">>>>, "}")
        ba == Group("{", <<<<"b">>, <<"a">>>>, "}")
    IN  { ab \o <<" ">> \o ab,
          ab \o <<" ">> \o ba \o <<" ">> \o ab,
          ab \o <<" ">> \o Group("(", <<<<"b">>>>, ")") \o <<" ">> \o ba }

\* the empty source and the sources of spaces, tabs and newlines only
BlankSources == SeqsUpTo(WhiteSpace, MaxSrcLen)

Sources ==
    ShortSources \cup GroupSources \cup ListSources \cup NestedSources
      \cup PairSources \cup CutSources \cup MarkerSources \cup BlankSources
      \cup ChainSources \cup ChoiceSources

(***************************************************************************)
(* The concepts a caller holds.                                            *)
(***************************************************************************)
Keys == {<<"a">>, <<"$", "x">>, <<"A">>}

AtomicConcepts == {NewConcept(k, <<>>) : k \in Keys}

\* any key over up to MaxParts atomic parts
FlatConcepts ==
    {NewConcept(k, ps) : k \in Keys, ps \in NonEmptySeqsUpTo(AtomicConcepts, MaxParts)}

\* the concepts fromParts makes of two atomic parts
PairConcepts == {fromParts(<<p, q>>) : p \in AtomicConcepts, q \in AtomicConcepts}

NestedConcepts ==
    {NewConcept(k, ps) :
        k \in Keys, ps \in NonEmptySeqsUpTo(AtomicConcepts \cup PairConcepts, MaxParts)}

Concepts == AtomicConcepts \cup FlatConcepts \cup NestedConcepts

(***************************************************************************)
(* parseConcepts as a state machine: one step per token.                   *)
(***************************************************************************)
\* the ConceptParsingContext as the handler of tokens[pos] finds it
Context ==
    [nodes |-> nodes, cache |-> cache, results |-> results, branch |-> branch,
     token |-> IF pos \in 1..Len(tokens) THEN tokens[pos] ELSE <<>>,
     error |-> "none"]

\* const tokens = tokenize(source); new RootNode(); new ConceptParsingContext(...)
Tokenize ==
    /\ pc = "start"
    /\ LET lexed == tokenize(source)
           context == NewContext(lexed.tokens)
       IN  IF lexed.ok
           THEN /\ tokens' = lexed.tokens
                /\ nodes' = context.nodes
                /\ cache' = context.cache
                /\ results' = context.results
                /\ branch' = context.branch
                /\ pc' = "loop"
                /\ error' = error
           ELSE /\ pc' = "error"
                /\ error' = "Unexpected token"
                /\ UNCHANGED <<tokens, nodes, cache, results, branch>>
    /\ UNCHANGED <<source, pos>>
    /\ UNCHANGED <<conceptVars, tagVars, chunkVars, astVars, combineVars>>

\* the for-loop is at a token of this type
AtToken(type) ==
    /\ pc = "loop"
    /\ pos <= Len(tokens)
    /\ tokens[pos].type = type

\* context.branch = handler(context), or the handler's throw ends parseConcepts
Step(after) ==
    /\ IF after.error = "none"
       THEN /\ nodes' = after.nodes
            /\ cache' = after.cache
            /\ results' = after.results
            /\ branch' = after.branch
            /\ pos' = pos + 1
            /\ UNCHANGED <<pc, error>>
       ELSE /\ pc' = "error"
            /\ error' = after.error
            /\ UNCHANGED <<nodes, cache, results, branch, pos>>
    /\ UNCHANGED <<source, tokens>>
    /\ UNCHANGED <<conceptVars, tagVars, chunkVars, astVars, combineVars>>

HandleAtom ==
    /\ AtToken("ATOM")
    /\ Step(tokenHandlers_ATOM(Context))

HandleBranchSeparator ==
    /\ AtToken("BRANCH_SEPARATOR")
    /\ Step(tokenHandlers_BRANCH_SEPARATOR(Context))

HandlePartSeparator ==
    /\ AtToken("PART_SEPARATOR")
    /\ Step(tokenHandlers_PART_SEPARATOR(Context))

HandleLParen ==
    /\ AtToken("L_PAREN")
    /\ Step(tokenHandlers_L_PAREN(Context))

HandleRParen ==
    /\ AtToken("R_PAREN")
    /\ Step(tokenHandlers_R_PAREN(Context))

HandleLCurly ==
    /\ AtToken("L_CURLY")
    /\ Step(tokenHandlers_L_CURLY(Context))

HandleRCurly ==
    /\ AtToken("R_CURLY")
    /\ Step(tokenHandlers_R_CURLY(Context))

HandleLSquare ==
    /\ AtToken("L_SQUARE")
    /\ Step(tokenHandlers_L_SQUARE(Context))

HandleRSquare ==
    /\ AtToken("R_SQUARE")
    /\ Step(tokenHandlers_R_SQUARE(Context))

\* HEAD_REF, PREV_SEQ_REF, SORTED_SET_INIT: throw new Error('Function not implemented.')
HandleNotImplemented ==
    /\ pc = "loop"
    /\ pos <= Len(tokens)
    /\ tokens[pos].type \in {"HEAD_REF", "PREV_SEQ_REF", "SORTED_SET_INIT"}
    /\ Step(tokenHandlers_NotImplemented(Context))

\* if (!handler) throw new Error(`No handler for token type ...`)
HandleUnknown ==
    /\ pc = "loop"
    /\ pos <= Len(tokens)
    /\ tokens[pos].type \notin HandledTypes
    /\ Step(tokenHandlers(Context))

\* context.close() after the loop
Close ==
    /\ pc = "loop"
    /\ pos > Len(tokens)
    /\ cache' = close(Context).cache
    /\ pc' = "readout"
    /\ UNCHANGED <<source, tokens, pos, nodes, results, branch, error>>
    /\ UNCHANGED <<conceptVars, tagVars, chunkVars, astVars, combineVars>>

\* root.children.forEach(...); return context.results
Return ==
    /\ pc = "readout"
    /\ results' = Readout(Context).results
    /\ pc' = "done"
    /\ UNCHANGED <<source, tokens, pos, nodes, cache, branch, error>>
    /\ UNCHANGED <<conceptVars, tagVars, chunkVars, astVars, combineVars>>

NoConcept == NewConcept(<<>>, <<>>)

Init ==
    /\ IdleCombine
    /\ source \in Sources
    /\ tokens = <<>>
    /\ pos = 1
    /\ pc = "start"
    /\ nodes = <<>>
    /\ cache = <<>>
    /\ results = <<>>
    /\ branch = 0
    /\ error = "none"
    /\ concept = NoConcept
    /\ wire = <<>>
    /\ restored = <<>>
    /\ cpc = "idle"
    /\ given = <<>>
    /\ vocabulary = {}
    /\ built = <<>>
    /\ tags = {}
    /\ mask = <<>>
    /\ remask = <<>>
    /\ kpc = "idle"
    /\ IdleChunks
    /\ IdleAst

Next ==
    \/ Tokenize
    \/ HandleAtom
    \/ HandleBranchSeparator
    \/ HandlePartSeparator
    \/ HandleLParen
    \/ HandleRParen
    \/ HandleLCurly
    \/ HandleRCurly
    \/ HandleLSquare
    \/ HandleRSquare
    \/ HandleNotImplemented
    \/ HandleUnknown
    \/ Close
    \/ Return

Spec == Init /\ [][Next]_vars

(***************************************************************************)
(* A caller that serializes a concept and reads it back.                   *)
(***************************************************************************)
\* a downstream consumer sets the back-reference `context`
SetContext ==
    /\ cpc = "new"
    /\ concept.context = <<>>
    /\ \E c \in AtomicConcepts : concept' = [concept EXCEPT !.context = <<c>>]
    /\ UNCHANGED <<wire, restored, cpc>>
    /\ UNCHANGED <<parseVars, tagVars, chunkVars, astVars, combineVars>>

Serialize ==
    /\ cpc = "new"
    /\ wire' = <<serialize(concept)>>
    /\ cpc' = "serialized"
    /\ UNCHANGED <<concept, restored>>
    /\ UNCHANGED <<parseVars, tagVars, chunkVars, astVars, combineVars>>

Deserialize ==
    /\ cpc = "serialized"
    /\ restored' = <<deserialize(wire[1])>>
    /\ cpc' = "restored"
    /\ UNCHANGED <<concept, wire>>
    /\ UNCHANGED <<parseVars, tagVars, chunkVars, astVars, combineVars>>

InitConcept ==
    /\ IdleCombine
    /\ source = <<>>
    /\ tokens = <<>>
    /\ pos = 1
    /\ pc = "idle"
    /\ nodes = <<>>
    /\ cache = <<>>
    /\ results = <<>>
    /\ branch = 0
    /\ error = "none"
    /\ concept \in Concepts
    /\ wire = <<>>
    /\ restored = <<>>
    /\ cpc = "new"
    /\ given = <<>>
    /\ vocabulary = {}
    /\ built = <<>>
    /\ tags = {}
    /\ mask = <<>>
    /\ remask = <<>>
    /\ kpc = "idle"
    /\ IdleChunks
    /\ IdleAst

NextConcept ==
    \/ SetContext
    \/ Serialize
    \/ Deserialize

SpecConcept == InitConcept /\ [][NextConcept]_vars

(***************************************************************************)
(* A caller that builds a concept from parts, classifies it and masks it.  *)
(***************************************************************************)
\* a literal, two variables, a directive, a command name, a directive word
TagKeys ==
    {<<"a">>, <<"$", "x">>, <<"$", "X">>, <<"@", "d">>, <<"A">>, <<"w">>}

TagAtoms == {NewConcept(k, <<>>) : k \in TagKeys}

\* A $x, A a, a $x, a a, and a a w
TagCompounds ==
    {fromParts(<<NewConcept(k, <<>>), NewConcept(l, <<>>)>>) :
        k \in {<<"A">>, <<"a">>}, l \in {<<"$", "x">>, <<"a">>}}
    \cup {fromParts(<<NewConcept(<<"a">>, <<>>), NewConcept(<<"a">>, <<>>),
                      NewConcept(<<"w">>, <<>>)>>)}

\* the sets of strings TriggerDirective may hold
DirectiveVocabularies == SUBSET {<<"w">>, <<"a">>}

\* Concept.fromParts(parts)
FromParts ==
    /\ kpc = "parts"
    /\ built' = <<fromParts(given)>>
    /\ kpc' = "built"
    /\ UNCHANGED <<given, vocabulary, tags, mask, remask>>
    /\ UNCHANGED <<parseVars, conceptVars, chunkVars, astVars, combineVars>>

\* concept.getTagSet()
GetTagSet ==
    /\ kpc = "built"
    /\ tags' = getTagSet(built[1])
    /\ kpc' = "tagged"
    /\ UNCHANGED <<given, vocabulary, built, mask, remask>>
    /\ UNCHANGED <<parseVars, conceptVars, chunkVars, astVars, combineVars>>

\* concept.toMask()
ToMask ==
    /\ kpc = "tagged"
    /\ mask' = <<toMask(built[1])>>
    /\ kpc' = "masked"
    /\ UNCHANGED <<given, vocabulary, built, tags, remask>>
    /\ UNCHANGED <<parseVars, conceptVars, chunkVars, astVars, combineVars>>

\* concept.toMask().toMask()
ToMaskAgain ==
    /\ kpc = "masked"
    /\ remask' = <<toMask(mask[1])>>
    /\ kpc' = "remasked"
    /\ UNCHANGED <<given, vocabulary, built, tags, mask>>
    /\ UNCHANGED <<parseVars, conceptVars, chunkVars, astVars, combineVars>>

InitClassify ==
    /\ IdleCombine
    /\ source = <<>>
    /\ tokens = <<>>
    /\ pos = 1
    /\ pc = "idle"
    /\ nodes = <<>>
    /\ cache = <<>>
    /\ results = <<>>
    /\ branch = 0
    /\ error = "none"
    /\ concept = NoConcept
    /\ wire = <<>>
    /\ restored = <<>>
    /\ cpc = "idle"
    /\ given \in SeqsUpTo(TagAtoms \cup TagCompounds, MaxTagParts)
    /\ vocabulary \in DirectiveVocabularies
    /\ built = <<>>
    /\ tags = {}
    /\ mask = <<>>
    /\ remask = <<>>
    /\ kpc = "parts"
    /\ IdleChunks
    /\ IdleAst

NextClassify ==
    \/ FromParts
    \/ GetTagSet
    \/ ToMask
    \/ ToMaskAgain

SpecClassify == InitClassify /\ [][NextClassify]_vars

(***************************************************************************)
(* A caller that tokenizes a source whole and in chunks (part_005).        *)
(***************************************************************************)
ChunkAlphabet == {"a", " ", ",", "(", ")", ".", "1"}

ChunkTexts == SeqsUpTo(ChunkAlphabet, MaxSrcLen)

RECURSIVE Split(_, _, _)
\* the chunks of s from index i on, cut after the indices in cuts
Split(s, i, cuts) ==
    IF i > Len(s) THEN <<>>
    ELSE LET later == {c \in cuts : c >= i}
             stop == IF later = {} THEN Len(s)
                     ELSE CHOOSE c \in later : \A d \in later : c <= d
         IN  <<SubSeq(s, i, stop)>> \o Split(s, stop + 1, cuts)

\* every way of splitting s into consecutive chunks that are not empty
SplitsOf(s) == {Split(s, 1, cuts) : cuts \in SUBSET (1..(Len(s) - 1))}

\* tokenize(sourceText)
TokenizeString ==
    /\ hpc = "start"
    /\ tokenizeString(sourceText).ends
    /\ whole' = tokenizeString(sourceText).tokens
    /\ hpc' = "whole"
    /\ UNCHANGED <<sourceText, chunks, emitted>>
    /\ UNCHANGED <<parseVars, conceptVars, tagVars, astVars, combineVars>>

\* await tokenize(chunks)
TokenizeChunks ==
    /\ hpc = "whole"
    /\ tokenizeChunks(chunks).ends
    /\ emitted' = tokenizeChunks(chunks).tokens
    /\ hpc' = "done"
    /\ UNCHANGED <<sourceText, chunks, whole>>
    /\ UNCHANGED <<parseVars, conceptVars, tagVars, astVars, combineVars>>

InitChunks ==
    /\ IdleCombine
    /\ source = <<>>
    /\ tokens = <<>>
    /\ pos = 1
    /\ pc = "idle"
    /\ nodes = <<>>
    /\ cache = <<>>
    /\ results = <<>>
    /\ branch = 0
    /\ error = "none"
    /\ concept = NoConcept
    /\ wire = <<>>
    /\ restored = <<>>
    /\ cpc = "idle"
    /\ given = <<>>
    /\ vocabulary = {}
    /\ built = <<>>
    /\ tags = {}
    /\ mask = <<>>
    /\ remask = <<>>
    /\ kpc = "idle"
    /\ sourceText \in ChunkTexts
    /\ chunks \in SplitsOf(sourceText)
    /\ whole = <<>>
    /\ emitted = <<>>
    /\ hpc = "start"
    /\ IdleAst

NextChunks ==
    \/ TokenizeString
    \/ TokenizeChunks

SpecChunks == InitChunks /\ [][NextChunks]_vars

(***************************************************************************)
(* Concept.parseAll and AstNode.parseTokens as a state machine: one step   *)
(* per token, then the closing of the nodes left open.                     *)
(***************************************************************************)
\* the run as the handler of tokenList[index] finds it
Run ==
    [tree |-> tree, cursor |-> cursor, concepts |-> concepts,
     completed |-> completed, thrown |-> thrown, visiting |-> visiting]

\* parseTokens is entered with these tokens and this callback
Enter(toks, callback) ==
    LET r == StartRun(callback)
    IN  /\ tokenList' = toks
        /\ visiting' = callback
        /\ tree' = r.tree
        /\ cursor' = r.cursor
        /\ completed' = r.completed
        /\ concepts' = r.concepts
        /\ apc' = "loop"
        /\ UNCHANGED <<notation, index, thrown>>

\* Concept.parseAll(source): tokenize of tokens.ts, the callback visits
ParseAll ==
    /\ apc = "start"
    /\ LET lexed == tokenize(notation)
       IN  IF lexed.ok
           THEN Enter(lexed.tokens, TRUE)
           ELSE /\ apc' = "error"
                /\ thrown' = "Unexpected token"
                /\ UNCHANGED <<notation, visiting, tokenList, index, tree, cursor,
                               completed, concepts>>
    /\ UNCHANGED <<parseVars, conceptVars, tagVars, chunkVars, combineVars>>

\* AstNode.parseTokens(tokens) with the default callback, on the tokens the
\* tokenizer of part_005 gives
ParseTokens ==
    /\ apc = "start"
    /\ generateTokens(notation).ends
    /\ Enter(generateTokens(notation).tokens, FALSE)
    /\ UNCHANGED <<parseVars, conceptVars, tagVars, chunkVars, combineVars>>

\* the for-loop is at a token of this type
AstAtToken(type) ==
    /\ apc = "loop"
    /\ index <= Len(tokenList)
    /\ tokenList[index].type = type

\* cursor = handler(token, cursor, onNodeComplete), or the throw ends the call
AstStep(after) ==
    /\ tree' = after.tree
    /\ cursor' = after.cursor
    /\ completed' = after.completed
    /\ concepts' = after.concepts
    /\ thrown' = after.thrown
    /\ IF after.thrown = "none"
       THEN /\ index' = index + 1
            /\ apc' = "loop"
       ELSE /\ index' = index
            /\ apc' = "error"
    /\ UNCHANGED <<notation, visiting, tokenList>>
    /\ UNCHANGED <<parseVars, conceptVars, tagVars, chunkVars, combineVars>>

AstAtom ==
    /\ AstAtToken("ATOM")
    /\ AstStep(astTokenHandlers_ATOM(Run, tokenList[index]))

AstHeadRef ==
    /\ AstAtToken("HEAD_REF")
    /\ AstStep(astTokenHandlers_HEAD_REF(Run, tokenList[index]))

AstPrevSeqRef ==
    /\ AstAtToken("PREV_SEQ_REF")
    /\ AstStep(astTokenHandlers_PREV_SEQ_REF(Run, tokenList[index]))

AstSortedSetInit ==
    /\ AstAtToken("SORTED_SET_INIT")
    /\ AstStep(astTokenHandlers_SORTED_SET_INIT(Run, tokenList[index]))

AstBranchSeparator ==
    /\ AstAtToken("BRANCH_SEPARATOR")
    /\ AstStep(astTokenHandlers_BRANCH_SEPARATOR(Run, tokenList[index]))

AstPartSeparator ==
    /\ AstAtToken("PART_SEPARATOR")
    /\ AstStep(astTokenHandlers_PART_SEPARATOR(Run, tokenList[index]))

AstLParen ==
    /\ AstAtToken("L_PAREN")
    /\ AstStep(astTokenHandlers_L_PAREN(Run, tokenList[index]))

AstRParen ==
    /\ AstAtToken("R_PAREN")
    /\ AstStep(astTokenHandlers_R_PAREN(Run, tokenList[index]))

AstLCurly ==
    /\ AstAtToken("L_CURLY")
    /\ AstStep(astTokenHandlers_L_CURLY(Run, tokenList[index]))

AstRCurly ==
    /\ AstAtToken("R_CURLY")
    /\ AstStep(astTokenHandlers_R_CURLY(Run, tokenList[index]))

AstLSquare ==
    /\ AstAtToken("L_SQUARE")
    /\ AstStep(astTokenHandlers_L_SQUARE(Run, tokenList[index]))

AstRSquare ==
    /\ AstAtToken("R_SQUARE")
    /\ AstStep(astTokenHandlers_R_SQUARE(Run, tokenList[index]))

\* a token type astTokenHandlers has no key for
AstNoHandler ==
    /\ apc = "loop"
    /\ index <= Len(tokenList)
    /\ tokenList[index].type \notin AstHandledTypes
    /\ AstStep(astTokenHandlers_None(Run, tokenList[index]))

\* after the for-loop: close any open nodes, return root (parseAll: concepts)
CloseOpenNodes ==
    /\ apc = "loop"
    /\ index > Len(tokenList)
    /\ LET after == BubbleLoop(Run, findClosest(tree, cursor, closableNodes))
       IN  /\ tree' = after.tree
           /\ completed' = after.completed
           /\ concepts' = after.concepts
           /\ thrown' = after.thrown
           /\ apc' = IF after.thrown = "none" THEN "done" ELSE "error"
    /\ UNCHANGED <<notation, visiting, tokenList, index, cursor>>
    /\ UNCHANGED <<parseVars, conceptVars, tagVars, chunkVars, combineVars>>

InitParseAll ==
    /\ IdleCombine
    /\ source = <<>>
    /\ tokens = <<>>
    /\ pos = 1
    /\ pc = "idle"
    /\ nodes = <<>>
    /\ cache = <<>>
    /\ results = <<>>
    /\ branch = 0
    /\ error = "none"
    /\ concept = NoConcept
    /\ wire = <<>>
    /\ restored = <<>>
    /\ cpc = "idle"
    /\ given = <<>>
    /\ vocabulary = {}
    /\ built = <<>>
    /\ tags = {}
    /\ mask = <<>>
    /\ remask = <<>>
    /\ kpc = "idle"
    /\ IdleChunks
    /\ notation \in Sources
    /\ visiting = FALSE
    /\ tokenList = <<>>
    /\ index = 1
    /\ tree = <<>>
    /\ cursor = 0
    /\ completed = <<>>
    /\ concepts = <<>>
    /\ thrown = "none"
    /\ apc = "start"

NextParseAll ==
    \/ ParseAll
    \/ ParseTokens
    \/ AstAtom
    \/ AstHeadRef
    \/ AstPrevSeqRef
    \/ AstSortedSetInit
    \/ AstBranchSeparator
    \/ AstPartSeparator
    \/ AstLParen
    \/ AstRParen
    \/ AstLCurly
    \/ AstRCurly
    \/ AstLSquare
    \/ AstRSquare
    \/ AstNoHandler
    \/ CloseOpenNodes

SpecParseAll == InitParseAll /\ [][NextParseAll]_vars

(***************************************************************************)
(* Both tree builders on one source: parseConcepts (parse.ts) first, then  *)
(* Concept.parseAll or AstNode.parseTokens (ast.ts).                       *)
(***************************************************************************)
InitBuilders ==
    /\ IdleCombine
    /\ source \in Sources
    /\ notation = source
    /\ tokens = <<>>
    /\ pos = 1
    /\ pc = "start"
    /\ nodes = <<>>
    /\ cache = <<>>
    /\ results = <<>>
    /\ branch = 0
    /\ error = "none"
    /\ concept = NoConcept
    /\ wire = <<>>
    /\ restored = <<>>
    /\ cpc = "idle"
    /\ given = <<>>
    /\ vocabulary = {}
    /\ built = <<>>
    /\ tags = {}
    /\ mask = <<>>
    /\ remask = <<>>
    /\ kpc = "idle"
    /\ IdleChunks
    /\ visiting = FALSE
    /\ tokenList = <<>>
    /\ index = 1
    /\ tree = <<>>
    /\ cursor = 0
    /\ completed = <<>>
    /\ concepts = <<>>
    /\ thrown = "none"
    /\ apc = "start"

\* parseConcepts has returned or thrown
ParseConceptsEnded == pc \in {"done", "error"}

NextBuilders ==
    \/ Next
    \/ ParseConceptsEnded /\ ParseAll
    \/ ParseConceptsEnded /\ ParseTokens
    \/ ParseConceptsEnded /\ AstAtom
    \/ ParseConceptsEnded /\ AstHeadRef
    \/ ParseConceptsEnded /\ AstPrevSeqRef
    \/ ParseConceptsEnded /\ AstSortedSetInit
    \/ ParseConceptsEnded /\ AstBranchSeparator
    \/ ParseConceptsEnded /\ AstPartSeparator
    \/ ParseConceptsEnded /\ AstLParen
    \/ ParseConceptsEnded /\ AstRParen
    \/ ParseConceptsEnded /\ AstLCurly
    \/ ParseConceptsEnded /\ AstRCurly
    \/ ParseConceptsEnded /\ AstLSquare
    \/ ParseConceptsEnded /\ AstRSquare
    \/ ParseConceptsEnded /\ AstNoHandler
    \/ ParseConceptsEnded /\ CloseOpenNodes

SpecBuilders == InitBuilders /\ [][NextBuilders]_vars

(***************************************************************************)
(* A caller that hands the same segments to combinePermutations all at     *)
(* once, to combinePermutations two at a time, and to                      *)
(* combinePermutationSegments.                                             *)
(***************************************************************************)
MaxSegments == 3

MaxChoices == 2

\* the permutations a segment is made of: one atomic part each
SegmentPermutations == {<<NewConcept(<<"a">>, <<>>)>>, <<NewConcept(<<"b">>, <<>>)>>}

\* a segment: the list of permutations of one child, the empty list included
SegmentChoices == SeqsUpTo(SegmentPermutations, MaxChoices)

SegmentLists == NonEmptySeqsUpTo(SegmentChoices, MaxSegments)

RECURSIVE combinePairwise(_, _)
\* combinePermutations(combinePermutations(combined, s1), s2) and so on
combinePairwise(combined, segments) ==
    IF segments = <<>> THEN combined
    ELSE combinePairwise(combinePermutations(<<combined, Head(segments)>>),
                         Tail(segments))

\* combinePermutations(...segmentList)
CombinePermutations ==
    /\ spc = "start"
    /\ spread' = combinePermutations(segmentList)
    /\ spc' = "spread"
    /\ UNCHANGED <<segmentList, folded, recursed>>
    /\ UNCHANGED <<parseVars, conceptVars, tagVars, chunkVars, astVars>>

\* combinePermutations(left, right) over the segments from left to right
CombinePairwise ==
    /\ spc = "spread"
    /\ folded' = combinePairwise(Head(segmentList), Tail(segmentList))
    /\ spc' = "folded"
    /\ UNCHANGED <<segmentList, spread, recursed>>
    /\ UNCHANGED <<parseVars, conceptVars, tagVars, chunkVars, astVars>>

\* combinePermutationSegments(segmentList)
CombinePermutationSegments ==
    /\ spc = "folded"
    /\ recursed' = combinePermutationSegments(segmentList)
    /\ spc' = "done"
    /\ UNCHANGED <<segmentList, spread, folded>>
    /\ UNCHANGED <<parseVars, conceptVars, tagVars, chunkVars, astVars>>

InitCombine ==
    /\ source = <<>>
    /\ tokens = <<>>
    /\ pos = 1
    /\ pc = "idle"
    /\ nodes = <<>>
    /\ cache = <<>>
    /\ results = <<>>
    /\ branch = 0
    /\ error = "none"
    /\ concept = NoConcept
    /\ wire = <<>>
    /\ restored = <<>>
    /\ cpc = "idle"
    /\ given = <<>>
    /\ vocabulary = {}
    /\ built = <<>>
    /\ tags = {}
    /\ mask = <<>>
    /\ remask = <<>>
    /\ kpc = "idle"
    /\ IdleChunks
    /\ IdleAst
    /\ segmentList \in SegmentLists
    /\ spread = <<>>
    /\ folded = <<>>
    /\ recursed = <<>>
    /\ spc = "start"

NextCombine ==
    \/ CombinePermutations
    \/ CombinePairwise
    \/ CombinePermutationSegments

SpecCombine == InitCombine /\ [][NextCombine]_vars

(***************************************************************************)
(* Properties of parseConcepts (Spec).                                     *)
(***************************************************************************)
\* the atomic concept of an atom's text
AtomicConcept(text) == NewConcept(text, <<>>)

AtomicConceptsOf(ys) == [i \in 1..Len(ys) |-> AtomicConcept(ys[i])]

\* fromParts([x, y1]), ..., fromParts([x, yn])
Pairings(x, ys) ==
    [i \in 1..Len(ys) |-> fromParts(<<AtomicConcept(x), AtomicConcept(ys[i])>>)]

\* C1: parseConcepts on `x (y1, ..., yn)`, n >= 1, raises no error and returns
\* exactly n+1 concepts in this order: fromParts([x, y1]), ...,
\* fromParts([x, yn]), and last the atomic concept x.
C1_ParentheticalBranches ==
    \A x \in AtomTexts, ys \in NonEmptySeqsUpTo(AtomTexts, MaxAlts) :
        source = GroupSource(x, "(", ys, ")") =>
            /\ pc # "error"
            /\ pc = "done" => results = Append(Pairings(x, ys), AtomicConcept(x))

C1_Witness ==
    /\ pc = "done"
    /\ source = GroupSource(<<"a">>, "(", << <<"b">>, <<"a">> >>, ")")
    /\ Len(results) = 3
    /\ results[1].parts = <<AtomicConcept(<<"a">>), AtomicConcept(<<"b">>)>>
    /\ results[3] = AtomicConcept(<<"a">>)

\* C2: parseConcepts on `x {y1, ..., yn}`, n >= 1, raises no error and returns
\* exactly the n concepts fromParts([x, yi]) in the order i = 1..n; the bare
\* concept x is not among them.
C2_InlineBranches ==
    \A x \in AtomTexts, ys \in NonEmptySeqsUpTo(AtomTexts, MaxAlts) :
        source = GroupSource(x, "{", ys, "}") =>
            /\ pc # "error"
            /\ pc = "done" =>
                  /\ results = Pairings(x, ys)
                  /\ \A i \in 1..Len(results) : results[i] # AtomicConcept(x)

C2_Witness ==
    /\ pc = "done"
    /\ source = GroupSource(<<"a">>, "{", << <<"b">>, <<"a">> >>, "}")
    /\ Len(results) = 2
    /\ results[2].parts = <<AtomicConcept(<<"a">>), AtomicConcept(<<"a">>)>>

\* the branch separators among Separators: they start with a comma or a newline
BranchSeparators == {sep \in Separators : sep[1] \in {",", "\n"}}

\* the part separators among Separators: runs of blanks that follow an atom (a
\* tab right after an atom's text is part of the atom: /^[^ ,\n\(\)\{\}\[\]]+/)
PartSeparators ==
    {sep \in Separators : sep[1] = " " /\ \A i \in 1..Len(sep) : sep[i] \in Blank}

\* C3: parseConcepts on n >= 1 atoms separated by top-level branch separators
\* (comma or newline) raises no error and returns exactly n atomic concepts,
\* one per atom, in source order.
C3_TopLevelBranches ==
    \A ys \in NonEmptySeqsUpTo(AtomTexts, MaxAlts), sep \in BranchSeparators :
        source = JoinWith(ys, sep) =>
            /\ pc # "error"
            /\ pc = "done" => results = AtomicConceptsOf(ys)

C3_Witness ==
    /\ pc = "done"
    /\ source = <<"a", ",", " ", "b">>
    /\ results = <<AtomicConcept(<<"a">>), AtomicConcept(<<"b">>)>>

\* atoms with a part separator between each two, and nothing else
AtomRun(toks) ==
    /\ Len(toks) % 2 = 1
    /\ \A i \in 1..Len(toks) :
          toks[i].type = IF i % 2 = 1 THEN "ATOM" ELSE "PART_SEPARATOR"

\* the texts of the atoms of such a run
AtomsOf(toks) == [i \in 1..((Len(toks) + 1) \div 2) |-> toks[2 * i - 1].value]

\* one concept: the atom itself, or the compound of the atoms in source order
IsCompoundOf(rs, ys) ==
    /\ Len(rs) = 1
    /\ Len(ys) = 1 => rs[1] = AtomicConcept(ys[1])
    /\ Len(ys) > 1 => rs[1].parts = AtomicConceptsOf(ys)

BranchPermutations(g) ==
    Flatten([i \in 1..Len(nodes[g].children) |->
                getPermutations(cache, nodes[g].children[i])])

\* the groups of a type that have been closed
ClosedGroups(type) == {g \in DOMAIN cache : nodes[g].type = type}

\* C5: when a `[...]` group closes, its permutation set has exactly one
\* single-segment permutation per permutation of its branches, in branch
\* order, the segment being fromParts of that branch permutation; and
\* `x [y {z1, ..., zn}]` yields exactly n concepts, the i-th having parts
\* (x, c_i) where c_i is a compound concept with parts (y, z_i).
C5_CompoundGroup ==
    /\ \A g \in ClosedGroups("COMPOUND") :
          cache[g] = [j \in 1..Len(BranchPermutations(g)) |->
                         <<fromParts(BranchPermutations(g)[j])>>]
    /\ \A x \in {<<"a">>}, y \in AtomTexts,
          zs \in NonEmptySeqsUpTo(AtomTexts, MaxAlts) :
          source = NestedSource(x, <<"[", "]">>, y, <<"{", "}">>, zs, <<>>) =>
              /\ pc # "error"
              /\ pc = "done" =>
                    /\ Len(results) = Len(zs)
                    /\ \A i \in 1..Len(zs) :
                          /\ Len(results[i].parts) = 2
                          /\ results[i].parts[1] = AtomicConcept(x)
                          /\ results[i].parts[2].parts =
                                 <<AtomicConcept(y), AtomicConcept(zs[i])>>

C5_Witness ==
    /\ pc = "done"
    /\ source = NestedSource(<<"a">>, <<"[", "]">>, <<"b">>, <<"{", "}">>,
                             << <<"a">>, <<"b">> >>, <<>>)
    /\ Len(results) = 2
    /\ \E g \in ClosedGroups("COMPOUND") : Len(cache[g]) = 2

RECURSIVE ProductOf(_)
\* n1 * n2 * ... * nk
ProductOf(counts) ==
    IF counts = <<>> THEN 1 ELSE Head(counts) * ProductOf(Tail(counts))

RECURSIVE SumOf(_)
\* n1 + n2 + ... + nk
SumOf(counts) ==
    IF counts = <<>> THEN 0 ELSE Head(counts) + SumOf(Tail(counts))

\* the permutation counts of the children listed
CountsOf(children) ==
    [i \in 1..Len(children) |-> Len(getPermutations(cache, children[i]))]

NonZero(counts) == SelectSeq(counts, LAMBDA n : n > 0)

\* the branches that have been closed
ClosedBranches == ClosedGroups("BRANCH")

\* C6, as stated: when a branch is closed, the number of permutations stored
\* for it equals the product n1*...*nk of the permutation counts of its
\* non-parenthetical children, for every combination of counts ni >= 0.
C6_CartesianLawWithZero ==
    \A b \in ClosedBranches :
        LET counts == CountsOf(NonParentheticalChildren(nodes, b))
        IN  counts # <<>> => Len(cache[b]) = ProductOf(counts)

\* C6, as the code has it: when a branch is closed, the number of
\* permutations stored for it equals the product of the permutation counts of
\* those of its children that have at least one permutation; a child with 0
\* permutations is passed over, and the branch has 0 permutations only when
\* none of its children has any.
C6_CartesianLaw ==
    \A b \in ClosedBranches :
        LET counts == NonZero(CountsOf(nodes[b].children))
        IN  Len(cache[b]) = IF counts = <<>> THEN 0 ELSE ProductOf(counts)

C6_Witness ==
    \E b \in ClosedBranches :
        LET counts == CountsOf(nodes[b].children)
        IN  /\ Len(counts) = 2
            /\ counts[1] >= 2
            /\ counts[2] >= 2
            /\ Len(cache[b]) = counts[1] * counts[2]

\* C7: when a `{...}` group closes, its permutation list is the concatenation,
\* in branch order, of the permutation lists of its branches, so its length
\* is exactly n1+...+nk for branch counts n1..nk.
C7_UnionLaw ==
    \A g \in ClosedGroups("INLINE_BRANCHING") :
        /\ cache[g] = BranchPermutations(g)
        /\ Len(cache[g]) = SumOf(CountsOf(nodes[g].children))

C7_Witness ==
    \E g \in ClosedGroups("INLINE_BRANCHING") :
        /\ Len(nodes[g].children) >= 2
        /\ \A i \in 1..Len(nodes[g].children) :
              Len(getPermutations(cache, nodes[g].children[i])) >= 1
        /\ Len(cache[g]) >= 2

\* the group a closing bracket closes
GroupTypeOf(type) ==
    CASE type = "R_PAREN"  -> "PARENTHETICAL"
      [] type = "R_CURLY"  -> "INLINE_BRANCHING"
      [] type = "R_SQUARE" -> "COMPOUND"

RECURSIVE OpenAbove(_, _)
\* a group of this type is open at the node or above it
OpenAbove(id, type) ==
    IF id = 0 THEN FALSE
    ELSE IF nodes[id].type = type THEN TRUE
    ELSE OpenAbove(nodes[id].parent, type)

\* the token at hand is a closing bracket with no open group of its kind
StrayCloser ==
    /\ pos \in 1..Len(tokens)
    /\ tokens[pos].type \in {"R_PAREN", "R_CURLY", "R_SQUARE"}
    /\ ~OpenAbove(branch, GroupTypeOf(tokens[pos].type))

\* C8: a closing bracket token that has no matching open group of its kind
\* is ignored: parseConcepts raises no error at it.
C8_StrayCloserIgnored == StrayCloser => pc # "error"

Openers == {"(", "{", "["}

CloserOf(ch) == CASE ch = "(" -> ")" [] ch = "{" -> "}" [] ch = "[" -> "]"

RECURSIVE Unclosed(_, _, _)
\* the closers of the brackets of s left open, innermost first; <<"!">> when
\* a closer of s closes no open bracket or not the innermost one
Unclosed(s, i, stack) ==
    IF i > Len(s) THEN stack
    ELSE IF s[i] \in Openers THEN Unclosed(s, i + 1, <<CloserOf(s[i])>> \o stack)
    ELSE IF s[i] \in {")", "}", "]"}
         THEN IF stack # <<>> /\ s[i] = Head(stack)
              THEN Unclosed(s, i + 1, Tail(stack))
              ELSE <<"!">>
    ELSE Unclosed(s, i + 1, stack)

MissingClosers(s) == Unclosed(s, 1, <<>>)

\* a source of properly nested brackets, the last of them not closed
HasUnclosedBrackets(s) ==
    /\ MissingClosers(s) # <<>>
    /\ MissingClosers(s) # <<"!">>
    /\ \A i \in 1..Len(s) : s[i] # "<"

\* C9: parseConcepts on a source whose opening brackets are not all closed at
\* end of input raises no error and returns the same list of concepts as the
\* same source with the missing closing brackets appended at the end.
C9_UnclosedAtEnd ==
    HasUnclosedBrackets(source) =>
        /\ pc # "error"
        /\ pc = "done" =>
              results = parseConcepts(source \o MissingClosers(source)).results

\* fromParts(L ++ R) for every permutation L of the prefix of a parenthetical
\* and every permutation R of one of its branches, branch after branch
Distribution(ns, c, parenthetical) ==
    LET prefixNode == prevSibling(ns, parenthetical)
        lefts == IF prefixNode = 0 THEN <<>> ELSE getPermutations(c, prefixNode)
        branches == ns[parenthetical].children
    IN  Flatten([i \in 1..Len(branches) |->
            LET pairs == Product(lefts, getPermutations(c, branches[i]))
            IN  [j \in 1..Len(pairs) |-> fromParts(pairs[j])]])

\* the for-loop is at a closing parenthesis that its handler accepts
ClosesParenthetical ==
    /\ pc = "loop"
    /\ pos <= Len(tokens)
    /\ tokens[pos].type = "R_PAREN"
    /\ pc' = "loop"

\* C20: the concepts a parenthetical adds to the result list when it closes
\* are exactly fromParts(L ++ R), one per pair (L, R) with L a permutation of
\* its prefix and R a permutation of one of its own branches; a parenthetical
\* branch with no permutations adds no concept.
C20_ParentheticalPairs ==
    [][ClosesParenthetical =>
           results' = results \o Distribution(nodes', cache', nodes[branch].parent)]_vars

\* the parenthetical whose closing parenthesis the for-loop is at
ClosingParenthetical == nodes[branch].parent

\* C21: a parenthetical that has no preceding sibling to serve as prefix in
\* its branch (as in the source `(y1, y2)`) adds no concept to the result
\* list when it closes.
C21_NoPrefixNoConcept ==
    [][ClosesParenthetical /\ prevSibling(nodes, ClosingParenthetical) = 0
           => results' = results]_vars

RECURSIVE LastOutside(_, _, _, _)
\* the last of siblings[1..i] whose type is not among `skipped`, 0 if none
LastOutside(ns, siblings, i, skipped) ==
    IF i < 1 THEN 0
    ELSE IF ns[siblings[i]].type \notin skipped THEN siblings[i]
    ELSE LastOutside(ns, siblings, i - 1, skipped)

\* the nearest sibling before node `id` in its branch that is of no skipped type
NearestBefore(ns, id, skipped) ==
    LET siblings == ns[ns[id].parent].children
        at == CHOOSE i \in 1..Len(siblings) : siblings[i] = id
    IN  LastOutside(ns, siblings, at - 1, skipped)

\* the concepts a closing parenthetical adds when it distributes over `prefix`
DistributedOver(ns, c, parenthetical, prefix) ==
    LET lefts == IF prefix = 0 THEN <<>> ELSE getPermutations(c, prefix)
        branches == NonParentheticalChildren(ns, parenthetical)
    IN  Flatten([i \in 1..Len(branches) |->
            LET combined == combinePermutations(
                                <<lefts, getPermutations(c, branches[i])>>)
            IN  [j \in 1..Len(combined) |-> fromParts(combined[j])]])

\* C22 as stated: the prefix over which a parenthetical distributes is the
\* nearest preceding sibling in the same branch that is not a group node:
\* `{...}`, `[...]` and `(...)` siblings between it and the parenthetical are
\* skipped.
C22_PrefixSkipsGroups ==
    [][ClosesParenthetical =>
           results' = results \o DistributedOver(nodes', cache', ClosingParenthetical,
                         NearestBefore(nodes', ClosingParenthetical,
                             {"PARENTHETICAL", "INLINE_BRANCHING", "COMPOUND"}))]_vars

\* C22: the prefix over which a parenthetical distributes is the nearest
\* preceding sibling in the same branch that is not a parenthetical: `(...)`
\* siblings are skipped, a `{...}` or `[...]` sibling is itself the prefix.
C22_PrefixSkipsParentheticals ==
    [][ClosesParenthetical =>
           results' = results \o DistributedOver(nodes', cache', ClosingParenthetical,
                         NearestBefore(nodes', ClosingParenthetical,
                             {"PARENTHETICAL"}))]_vars

\* `a {b} (c)` has been parsed: the parenthetical distributed over {b}
C22_Witness ==
    /\ pc = "done"
    /\ source = <<"a", " ", "{", "b", "}", " ", "(", "c", ")">>
    /\ Len(results) >= 1
    /\ results[1] = fromParts(<<AtomicConcept(<<"b">>), AtomicConcept(<<"c">>)>>)

\* the concepts of one branch: fromParts of each of its permutations
ConceptsOfBranch(ns, c, b) ==
    LET permutations == getPermutations(c, b)
    IN  [j \in 1..Len(permutations) |-> fromParts(permutations[j])]

\* the concepts of the root's branches, in branch order
ConceptsOfRoot(ns, c) ==
    Flatten([i \in 1..Len(ns[1].children) |-> ConceptsOfBranch(ns, c, ns[1].children[i])])

\* s is t, or t with something put after it
Extends(s, t) == Len(s) >= Len(t) /\ SubSeq(s, 1, Len(t)) = t

\* C23: in the list returned by parseConcepts, every concept emitted by a
\* parenthetical distribution comes before every concept read out of the
\* root's branches; the distribution concepts are in the order their
\* parentheticals closed, and the root-branch concepts are in branch order.
\* While the tokens are consumed the list only grows at its end, and only
\* when a parenthesis closes; the read-out puts the root's concepts last.
C23_DistributionThenRoot ==
    [][/\ pc = "loop" =>
            /\ Extends(results', results)
            /\ results' # results => tokens[pos].type = "R_PAREN"
       /\ pc = "readout" => results' = results \o ConceptsOfRoot(nodes, cache)]_vars

\* `a (b) (c)` has been parsed: a b of the first parenthetical, a c of the
\* second, and last the root branch's a
C23_Witness ==
    /\ pc = "done"
    /\ source = <<"a", " ", "(", "b", ")", " ", "(", "c", ")">>
    /\ results = <<fromParts(<<AtomicConcept(<<"a">>), AtomicConcept(<<"b">>)>>),
                   fromParts(<<AtomicConcept(<<"a">>), AtomicConcept(<<"c">>)>>),
                   AtomicConcept(<<"a">>)>>

(***************************************************************************)
(* Properties of tokenize (Spec).                                          *)
(***************************************************************************)
\* tokenize(source) has returned
Tokenized == pc \in {"loop", "readout", "done"} \/ (pc = "error" /\ tokens # <<>>)

\* the texts of the tokens, one after the other
TokenTexts(toks) == Flatten([i \in 1..Len(toks) |-> toks[i].value])

\* C16: for every source string, concatenating the text of the tokens
\* returned by tokenize, in order, gives exactly the source with its leading
\* and trailing whitespace removed.
C16_TokensSpellTrimmedSource ==
    /\ error # "Unexpected token"
    /\ Tokenized => TokenTexts(tokens) = trimEnd(trimStart(source))

C16_Witness ==
    /\ pc = "loop"
    /\ source = <<"a", " ", "{", "b", ",", " ", "a", "}">>
    /\ Len(tokens) = 7
    /\ tokens[5].value = <<",", " ">>
    /\ TokenTexts(tokens) = source

\* C19: tokenize returns the empty token sequence for the empty string and
\* for every input made only of spaces, tabs and newlines.
C19_BlankSourceNoTokens ==
    (pc # "start" /\ \A i \in 1..Len(source) : source[i] \in WhiteSpace) =>
        /\ pc # "error"
        /\ tokens = <<>>

C19_Witness ==
    /\ pc = "done"
    /\ source = <<" ", "\t", "\n">>
    /\ tokens = <<>>
    /\ results = <<>>

\* C30: when a closing bracket is preceded by a run of blanks, tabs, commas
\* or newlines, tokenize makes that run part of the closing-bracket token: no
\* separate BRANCH_SEPARATOR or PART_SEPARATOR token is emitted before a
\* closing-bracket token.
C30_CloserTakesSeparators ==
    Tokenized =>
        \A i \in 2..Len(tokens) :
            tokens[i].type \in {"R_PAREN", "R_CURLY", "R_SQUARE"} =>
                tokens[i - 1].type \notin {"BRANCH_SEPARATOR", "PART_SEPARATOR"}

\* C31: for every token produced by tokenize of tokens.ts: end.offset -
\* start.offset equals the length of the token's text, end.line - start.line
\* equals the number of newline characters in the token's text, and the start
\* cursor of every token after the first equals the end cursor of the token
\* before it.
C31_TokenLocations ==
    Tokenized =>
        \A i \in 1..Len(tokens) :
            /\ tokens[i].loc.end.offset - tokens[i].loc.start.offset = Len(tokens[i].value)
            /\ tokens[i].loc.end.line - tokens[i].loc.start.line = Newlines(tokens[i].value)
            /\ i > 1 => tokens[i].loc.start = tokens[i - 1].loc.end

(***************************************************************************)
(* Properties of the chunked tokenizer (SpecChunks).                       *)
(***************************************************************************)
\* C17: for every way of splitting a source string into consecutive chunks,
\* the chunked (async-iterable) tokenizer emits the same sequence of token
\* kinds and texts, in source order, as tokenizing the whole string at once.
C17_ChunkedSameAsWhole == hpc = "done" => emitted = whole

(***************************************************************************)
(* Properties of Concept.parseAll (SpecParseAll).                          *)
(***************************************************************************)
\* parseAll has returned, and the source was one atom (one ATOM token)
ParsedSingleAtom ==
    /\ apc = "done"
    /\ visiting
    /\ Len(tokenList) = 1
    /\ tokenList[1].type = "ATOM"

\* C18: Concept.parseAll on a source consisting of a single atom returns a
\* list of exactly one concept, whose key is the atom's text.
C18_SingleAtom ==
    ParsedSingleAtom =>
        /\ Len(concepts) = 1
        /\ concepts[1].key = tokenList[1].value

(***************************************************************************)
(* Properties of AstNode.parseTokens (SpecParseAll).                       *)
(***************************************************************************)
\* the types of the group nodes
AstGroupTypes == {"PARENTHETICAL", "INLINE_BRANCHING", "COMPOUND"}

\* parseTokens has consumed its tokens and returned the root
Accepted == apc = "done"

\* node n was reported by one of the first k - 1 calls of onNodeComplete
ReportedBefore(n, k) == \E j \in 1..(k - 1) : completed[j] = n

\* C24: in AstNode.parseTokens, for every accepted token sequence,
\* onNodeComplete is fired for every Branch child of a group before it is
\* fired for that group: a Compound, InlineBranching or Parenthetical is never
\* reported complete while one of its Branch children is still unreported.
C24_BranchesBeforeGroup ==
    Accepted =>
        \A k \in 1..Len(completed) :
            tree[completed[k]].type \in AstGroupTypes =>
                \A i \in 1..Len(tree[completed[k]].children) :
                    LET child == tree[completed[k]].children[i]
                    IN  tree[child].type = "BRANCH" => ReportedBefore(child, k)

\* C25: during one AstNode.parseTokens call, onNodeComplete is fired at most
\* once for any given node.
C25_ReportedOnce ==
    \A j, k \in 1..Len(completed) : j # k => completed[j] # completed[k]

\* C26: on a BRANCH_SEPARATOR token, AstNode.parseTokens fires onNodeComplete
\* on the current branch and creates the new Branch as a sibling of it: the
\* new Branch's parent is the parent of the branch just closed, whether that
\* parent is Root, an InlineBranching, a Compound or a Parenthetical.
C26_SeparatorOpensSibling ==
    [][AstAtToken("BRANCH_SEPARATOR") =>
           LET current == findClosest(tree, cursor, {"BRANCH"})
           IN  /\ apc' = "loop"
               /\ completed' = Append(completed, current)
               /\ Len(tree') = Len(tree) + 1
               /\ tree'[Len(tree')].type = "BRANCH"
               /\ tree'[Len(tree')].parent = tree[current].parent
               /\ cursor' = Len(tree')]_vars

AtOpener ==
    /\ apc = "loop"
    /\ index <= Len(tokenList)
    /\ tokenList[index].type \in {"L_PAREN", "L_CURLY", "L_SQUARE"}

C28_RootLastAndOnce ==
    Accepted =>
        /\ Len(completed) >= 1
        /\ completed[Len(completed)] = 1
        /\ \A k \in 1..(Len(completed) - 1) : completed[k] # 1

\* the tokens of `a {b, c}` were accepted: b's branch, c's branch and the
\* groups around them were reported, the root last
C28_Witness ==
    /\ Accepted
    /\ Len(tokenList) = 7
    /\ tokenList[3].type = "L_CURLY"
    /\ Len(completed) >= 5
    /\ completed[Len(completed)] = 1
    /\ tree[1].type = "ROOT"

(***************************************************************************)
(* Properties of both tree builders (SpecBuilders).                        *)
(***************************************************************************)
\* in the arena t every Branch is a child of a Root or of a group node, and
\* the first child of every group node is a Branch
WellFormed(t) ==
    \A n \in 1..Len(t) :
        /\ t[n].type = "BRANCH" =>
               /\ t[n].parent # 0
               /\ t[t[n].parent].type \in {"ROOT"} \cup AstGroupTypes
               /\ \E i \in 1..Len(t[t[n].parent].children) :
                      t[t[n].parent].children[i] = n
        /\ t[n].type \in AstGroupTypes =>
               /\ Len(t[n].children) >= 1
               /\ t[t[n].children[1]].type = "BRANCH"

\* C29: after any sequence of tokens consumed by the tree builder, every
\* Branch node is a child of a Root, Compound, InlineBranching or
\* Parenthetical node, and the first child of every Compound, InlineBranching
\* and Parenthetical node is a Branch; in the tree of parse.ts (nodes) as in
\* the tree of ast.ts (tree).
C29_WellFormedTrees == WellFormed(nodes) /\ WellFormed(tree)

\* both builders have consumed `a [b, a]`: a group, and a branch that a
\* separator opened inside the group, in both trees
C29_Witness ==
    /\ source = <<"a", " ", "[", "b", ",", " ", "a", "]">>
    /\ pc = "done"
    /\ apc = "done"
    /\ \E n \in 1..Len(nodes) :
           /\ nodes[n].type = "BRANCH"
           /\ nodes[n].token # <<>>
           /\ nodes[nodes[n].parent].type = "COMPOUND"
    /\ \E n \in 1..Len(tree) :
           /\ tree[n].type = "BRANCH"
           /\ tree[n].token # <<>>

(***************************************************************************)
(* Properties of Concept (SpecConcept).                                    *)
(***************************************************************************)
\* C10: for every concept tree c, Concept.deserialize(c.serialize()) is
\* structurally equal to c: same key and the same parts, recursively, in the
\* same order.
C10_RoundTrip == cpc = "restored" => StructurallyEqual(restored[1], concept)

C10_Witness ==
    /\ cpc = "restored"
    /\ Len(concept.parts) = 2
    /\ Len(concept.parts[1].parts) = 2
    /\ concept.context # <<>>
    /\ restored[1].parts = [i \in 1..2 |-> [concept.parts[i] EXCEPT !.context = <<>>]]

(***************************************************************************)
(* Properties of Concept's classifier and builder (SpecClassify).          *)
(***************************************************************************)
\* C11: for every concept c, c.toMask().toMask() is structurally equal to
\* c.toMask().
C11_MaskIdempotent ==
    kpc = "remasked" => StructurallyEqual(remask[1], mask[1])

C11_Witness ==
    /\ kpc = "remasked"
    /\ Len(built[1].parts) >= 2
    /\ \E i \in 1..Len(built[1].parts) : Len(built[1].parts[i].parts) >= 2
    /\ ~StructurallyEqual(mask[1], built[1])
    /\ StructurallyEqual(remask[1], mask[1])

\* the tags the parts of a compound carry
PartTags(c) == UNION {getTagSet(c.parts[i]) : i \in 1..Len(c.parts)}

\* C12: a compound concept whose first part is tagged COMMAND_NAME is tagged
\* COMMAND and is never tagged PATTERN, even when one of its later parts is a
\* VARIABLE or a PATTERN.
C12_CommandBeforePattern ==
    (/\ kpc \in {"tagged", "masked", "remasked"}
     /\ Len(built[1].parts) > 0
     /\ "COMMAND_NAME" \in getTagSet(built[1].parts[1])) =>
        /\ "COMMAND" \in tags
        /\ "PATTERN" \notin tags

C12_Witness ==
    /\ kpc = "tagged"
    /\ Len(built[1].parts) = 3
    /\ built[1].parts[1] = NewConcept(<<"A">>, <<>>)
    /\ "VARIABLE" \in getTagSet(built[1].parts[2])
    /\ "PATTERN" \in getTagSet(built[1].parts[3])
    /\ tags = {"COMPOUND", "COMMAND"}

\* the second tag of an atomic concept, by precedence
AtomicTag(c) ==
    IF startsWith(c.key, "$") THEN "VARIABLE"
    ELSE IF startsWith(c.key, "@") THEN "DIRECTIVE"
    ELSE IF toUpperCase(c.key) = c.key THEN "COMMAND_NAME"
    ELSE "LITERAL"

\* the second tag of a compound concept, by precedence
CompoundTag(c) ==
    IF "COMMAND_NAME" \in getTagSet(c.parts[1]) THEN "COMMAND"
    ELSE IF PartTags(c) \cap {"PATTERN", "VARIABLE"} # {} THEN "PATTERN"
    ELSE IF PartTags(c) \cap {"TRIGGER_NAME", "TRIGGER_CLAUSE"} # {} THEN "TRIGGER"
    ELSE IF Len(c.parts) = 3 /\ c.parts[3].key \in vocabulary THEN "TRIGGER_CLAUSE"
    ELSE "LITERAL"

\* C13: the tag set of every concept has exactly two tags: an atomic concept
\* has ATOM plus exactly one of VARIABLE, DIRECTIVE, COMMAND_NAME, LITERAL
\* (chosen in that precedence); a compound concept has COMPOUND plus exactly
\* one of COMMAND, PATTERN, TRIGGER, TRIGGER_CLAUSE, LITERAL (chosen in that
\* precedence); no tag set contains both ATOM and COMPOUND.
C13_TwoTags ==
    kpc \in {"tagged", "masked", "remasked"} =>
        /\ Cardinality(tags) = 2
        /\ ~({"ATOM", "COMPOUND"} \subseteq tags)
        /\ Len(built[1].parts) = 0 => tags = {"ATOM", AtomicTag(built[1])}
        /\ Len(built[1].parts) > 0 => tags = {"COMPOUND", CompoundTag(built[1])}

C13_Witness ==
    /\ kpc = "tagged"
    /\ Len(built[1].parts) = 3
    /\ "TRIGGER_CLAUSE" \in getTagSet(built[1].parts[2])
    /\ built[1].parts[3].key \in vocabulary
    /\ tags = {"COMPOUND", "TRIGGER"}

\* the display form of a part: its key, in [ ] when the part has sub-parts
DisplayForm(part) ==
    IF Len(part.parts) = 0 THEN part.key ELSE <<"[">> \o part.key \o <<"]">>

\* C14, as stated: for two or more parts, joinKeys joins the parts' display
\* forms with single spaces, the display form of a part that has sub-parts
\* being its key wrapped in [ ].
C14_JoinDisplayForms ==
    (kpc # "parts" /\ Len(given) >= 2) =>
        built[1].key = JoinWith([i \in 1..Len(given) |-> DisplayForm(given[i])], <<" ">>)

\* C14, as the code has it: for two or more parts, joinKeys joins the parts'
\* keys with single spaces, whether or not a part has sub-parts.
C14_JoinKeys ==
    (kpc # "parts" /\ Len(given) >= 2) =>
        built[1].key = JoinWith([i \in 1..Len(given) |-> given[i].key], <<" ">>)

C14_Witness ==
    /\ kpc = "built"
    /\ Len(given) = 2
    /\ given[1].key = <<"a">>
    /\ Len(given[2].parts) = 2
    /\ built[1].key = <<"a", " ", "a", " ", "$", "x">>

\* C15: Concept.fromParts returns an atomic concept with empty key for zero
\* parts, returns the given part itself (no new wrapping concept) for
\* exactly one part, and for two or more parts returns a new concept whose
\* parts are the given sequence and whose key is joinKeys of it.
C15_FromParts ==
    kpc # "parts" =>
        /\ Len(given) = 0 => built[1] = [key |-> <<>>, parts |-> <<>>, context |-> <<>>]
        /\ Len(given) = 1 => built[1] = given[1]
        /\ Len(given) >= 2 =>
              /\ built[1].parts = given
              /\ built[1].key = joinKeys(given)

C15_Witness ==
    /\ kpc = "built"
    /\ Len(given) = 1
    /\ Len(given[1].parts) = 2
    /\ built[1] = given[1]

RECURSIVE Leaves(_)
\* the sub-concepts of c, c included, that have no parts
Leaves(c) ==
    IF Len(c.parts) = 0 THEN {c}
    ELSE UNION {Leaves(c.parts[i]) : i \in 1..Len(c.parts)}

\* toMask has returned
Masked == kpc \in {"masked", "remasked"}

\* C32: for every concept c, every leaf of c.toMask() that is tagged VARIABLE
\* has key `$`: no variable leaf of c survives unmasked at any depth.
C32_NoVariableSurvives ==
    Masked => \A leaf \in Leaves(mask[1]) : is(leaf, "VARIABLE") => leaf.key = <<"$">>

\* the names a variable leaf may be given
VariableKeys == {<<"$", "x">>, <<"$", "X">>, <<"$", "y">>}

RECURSIVE Renamed(_, _)
\* c built again by fromParts with every variable leaf named name anew by rho
Renamed(c, rho) ==
    IF Len(c.parts) = 0
    THEN IF startsWith(c.key, "$") /\ c.key \in DOMAIN rho
         THEN NewConcept(rho[c.key], <<>>) ELSE c
    ELSE fromParts([i \in 1..Len(c.parts) |-> Renamed(c.parts[i], rho)])

\* C33: if two concepts built by fromParts have the same tree shape and the
\* same key at every non-variable leaf, and differ only in the names of their
\* `$`-prefixed variable leaves, then their masks are structurally equal
\* (equal serialized forms).
C33_MaskForgetsNames ==
    Masked =>
        \A rho \in [VariableKeys -> VariableKeys] :
            serialize(toMask(Renamed(built[1], rho))) = serialize(mask[1])

(***************************************************************************)
(* More properties of parseConcepts (Spec).                                *)
(***************************************************************************)
\* the token types of the reference markers: tokens.ts names `...` PREV_REF
ReferenceTypes == {"HEAD_REF", "PREV_REF", "PREV_SEQ_REF", "SORTED_SET_INIT"}

\* the indices of the reference tokens of the token stream
ReferenceTokens == {i \in 1..Len(tokens) : tokens[i].type \in ReferenceTypes}

\* C34: parseConcepts raises an error, and returns no concepts, for every
\* source whose token stream contains a HEAD_REF, PREV_SEQ_REF or
\* SORTED_SET_INIT token: the loop never gets past the first such token, the
\* call never reaches its read-out or its return, and the handler of that
\* token ends it with an error.
C34_ReferencesAbort ==
    ReferenceTokens # {} =>
        LET first == CHOOSE i \in ReferenceTokens : \A j \in ReferenceTokens : i <= j
        IN  /\ pc \in {"loop", "error"}
            /\ pos <= first
            /\ (pc = "error" /\ pos = first) =>
                  error \in {"Function not implemented.", "No handler for token type"}

\* `a &` has thrown at its HEAD_REF token, the atom before it handled
C34_Witness ==
    /\ pc = "error"
    /\ error = "Function not implemented."
    /\ pos = 3
    /\ tokens[3].type = "HEAD_REF"
    /\ tokens[1].type = "ATOM"

\* C35: with the default rule set tokenize ends on every input without the
\* unexpected-token error: at every position of the trimmed input some rule
\* matches a non-empty prefix, so every token has non-empty text, the texts
\* add up to the trimmed input, and the cursor's offset strictly grows.
C35_TokenizeTotal ==
    pc # "start" =>
        /\ error # "Unexpected token"
        /\ \A i \in 1..Len(tokens) :
              /\ Len(tokens[i].value) >= 1
              /\ tokens[i].loc.end.offset > tokens[i].loc.start.offset
        /\ Flatten([i \in 1..Len(tokens) |-> tokens[i].value]) = trimEnd(trimStart(source))

\* `...` with nothing after it is no PREV_REF and no quoted atom: the last
\* rule takes it as one atom
C35_Witness ==
    /\ pc = "loop"
    /\ source = <<".", ".", ".">>
    /\ Len(tokens) = 1
    /\ tokens[1].type = "ATOM"
    /\ tokens[1].value = source

RECURSIVE WellBuilt(_)
\* c and every sub-concept of c has a non-empty key and no or several parts
WellBuilt(c) ==
    /\ c.key # <<>>
    /\ Len(c.parts) # 1
    /\ \A i \in 1..Len(c.parts) : WellBuilt(c.parts[i])

\* C36: every concept parseConcepts returns, and every sub-concept inside it
\* at any depth, has a non-empty key and either no parts or at least two;
\* no permutation stored for any node is an empty sequence.
C36_ConceptsWellBuilt ==
    /\ pc = "done" => \A i \in 1..Len(results) : WellBuilt(results[i])
    /\ \A n \in DOMAIN cache : \A j \in 1..Len(cache[n]) : cache[n][j] # <<>>

\* a returned compound with a compound among its parts, and a branch whose
\* permutations are stored
C36_Witness ==
    /\ pc = "done"
    /\ \E i \in 1..Len(results) :
          /\ Len(results[i].parts) >= 2
          /\ \E k \in 1..Len(results[i].parts) : Len(results[i].parts[k].parts) >= 2
    /\ \E n \in DOMAIN cache : nodes[n].type = "BRANCH" /\ cache[n] # <<>>

RECURSIVE CountsAfter(_, _)
\* the number of ways to choose from the segments after the m-th
CountsAfter(segments, m) ==
    IF m >= Len(segments) THEN 1
    ELSE Len(segments[m + 1]) * CountsAfter(segments, m + 1)

\* the choice for the m-th segment in the x-th combination, both counted
\* from 0, when the leftmost choice is the most significant digit
ChoiceAt(segments, m, x) == (x \div CountsAfter(segments, m)) % Len(segments[m])

\* the combinations of one permutation of every segment, in lexicographic
\* order of the choice indices
Lexicographic(segments) ==
    [x \in 1..(Len(segments[1]) * CountsAfter(segments, 1)) |->
        Flatten([m \in 1..Len(segments) |->
                    segments[m][ChoiceAt(segments, m, x - 1) + 1]])]

\* C37: for a branch whose non-parenthetical children c1..ck all have
\* non-empty permutation lists, the branch's permutation list is in
\* lexicographic order of the choice indices (i1, ..., ik), the leftmost
\* child most significant: the choice for c1 varies slowest, the choice for
\* ck fastest.  combinePermutationSegments gives the same list.
C37_LeftmostSlowest ==
    \A b \in ClosedBranches :
        LET children == NonParentheticalChildren(nodes, b)
            segments == [m \in 1..Len(children) |-> getPermutations(cache, children[m])]
        IN  (children # <<>> /\ \A m \in 1..Len(segments) : segments[m] # <<>>) =>
                /\ cache[b] = Lexicographic(segments)
                /\ combinePermutationSegments(segments) = Lexicographic(segments)

\* {a, b} {b, a} {a, b} closed: eight permutations, the second a b b
C37_Witness ==
    \E b \in ClosedBranches :
        LET children == NonParentheticalChildren(nodes, b)
        IN  /\ Len(children) = 3
            /\ \A m \in 1..3 : Len(getPermutations(cache, children[m])) = 2
            /\ Len(cache[b]) = 8
            /\ [m \in 1..3 |-> cache[b][2][m].key] = <<<<"a">>, <<"b">>, <<"b">>>>

(***************************************************************************)
(* Properties of the combining functions (SpecCombine).                    *)
(***************************************************************************)
\* C38: combinePermutations called with three or more segments returns the
\* same list as combining them two at a time from left to right, and the
\* same list as combinePermutationSegments on the same segments, for all
\* segment lists, those with an empty segment included.
C38_ThreeWaysAgree ==
    (spc = "done" /\ Len(segmentList) >= 3) =>
        /\ spread = folded
        /\ spread = recursed

====
